---- MODULE Spec2Model ----
(***************************************************************************)
(* Bookboard (src/app.jsx): the entity-extraction pipeline of the App      *)
(* component.  The model follows extractEntities / extractChunk and the    *)
(* dialogs that lead to them.  One extraction run is an async function:    *)
(* everything between two awaits is one atomic step of the single-threaded *)
(* event loop, so every action below covers the code from one suspension   *)
(* point to the next.                                                      *)
(***************************************************************************)
EXTENDS Integers, Sequences, FiniteSets, TLC

(***************************************************************************)
(* Bounds of the model.                                                    *)
(***************************************************************************)
MaxSections == 7
MaxRuns == 2
MaxBoard == 1

(***************************************************************************)
(* Program constants.                                                      *)
(***************************************************************************)
CHUNK_THRESHOLD == 200000
chunkSize == 3
cardWidth == 240
cardHeight == 180
cardsPerRow == 5
startX == 40
startY == 40
NoChapterNums == 999
Infinity == 1000000

Min(a, b) == IF a < b THEN a ELSE b

(***************************************************************************)
(* Strings whose characters matter (entity names) are sequences of         *)
(* one-character strings.  toLowerCase maps each character, trim removes   *)
(* leading and trailing white space.                                       *)
(***************************************************************************)
LowerChar(c) ==
  CASE c = "A" -> "a"
    [] c = "B" -> "b"
    [] OTHER -> c

toLowerCase(s) == [i \in 1..Len(s) |-> LowerChar(s[i])]

WhiteSpace == {" ", "\n"}

RECURSIVE trimStart(_)
trimStart(s) ==
  IF s # <<>> /\ Head(s) \in WhiteSpace THEN trimStart(Tail(s)) ELSE s

RECURSIVE trimEnd(_)
trimEnd(s) ==
  IF s # <<>> /\ s[Len(s)] \in WhiteSpace
    THEN trimEnd(SubSeq(s, 1, Len(s) - 1)) ELSE s

trim(s) == trimEnd(trimStart(s))

(***************************************************************************)
(* Template literals `${n}` render a number in decimal.                    *)
(***************************************************************************)
RECURSIVE DigitChars(_)
DigitChars(n) ==
  IF n < 10 THEN <<ToString(n)>>
  ELSE DigitChars(n \div 10) \o <<ToString(n % 10)>>

(***************************************************************************)
(* Chapters.  A chapter is [id, title, contentLen, isFrontMatter]; the     *)
(* title is a character sequence, the content is represented by its        *)
(* length, which is all the pipeline reads of it.                          *)
(***************************************************************************)
ChapterId(k) == 100 + k
ChapterTitle(k) == <<"C", "h", " ">> \o DigitChars(k)

SmallLen == 100
FrontMatterLen == 50
EdgeLens == {199981, 199983, 199984}

\* The manuscripts of the model, as <<n, front, firstLen>> (see ChapterList):
\* every number n of real sections up to MaxSections, the front matter absent,
\* first or second in turn; a project of front matter only (an imported
\* project file can hold one); one section of each length around the
\* threshold; and manuscripts that are over the threshold from the start.
Manuscripts ==
  {<<n, n % 3, SmallLen>> : n \in 0..MaxSections}
  \cup {<<0, 1, SmallLen>>}
  \cup {<<1, 0, len>> : len \in EdgeLens}
  \cup {<<4, 1, 199984>>, <<MaxSections, 0, 199984>>}

\* The chapters of a project: n real sections, the first with a content of
\* firstLen characters and the others of SmallLen, and a front-matter section
\* in front of them (front = 1, as an import leaves it), behind the first of
\* them (front = 2, after a reorder) or absent (front = 0).
ChapterList(n, front, firstLen) ==
  LET fm == [id |-> ChapterId(0), title |-> <<"F", "M">>,
             contentLen |-> FrontMatterLen, isFrontMatter |-> TRUE]
      real == [k \in 1..n |->
                 [id |-> ChapterId(k), title |-> ChapterTitle(k),
                  contentLen |-> IF k = 1 THEN firstLen ELSE SmallLen,
                  isFrontMatter |-> FALSE]]
  IN IF front = 0 THEN real
     ELSE IF front = 1 \/ n = 0 THEN <<fm>> \o real
     ELSE <<Head(real), fm>> \o Tail(real)

(***************************************************************************)
(* Entity drafts as the service returns them: type, name and optionally    *)
(* chapterNums (the code reads `entity.chapterNums || []`).                *)
(***************************************************************************)
DraftA == [type |-> "character", name |-> <<"A", "n">>, chapterNums |-> <<2, 1>>]
DraftA2 == [type |-> "character", name |-> <<"a", "n", " ">>, chapterNums |-> <<4, 1>>]
DraftB == [type |-> "scene", name |-> <<"B">>, chapterNums |-> <<9>>]

DraftLists == { << >>, <<DraftA>>, <<DraftA2, DraftB>> }

HasNums(d) == "chapterNums" \in DOMAIN d
NumsOf(d) == IF HasNums(d) THEN d.chapterNums ELSE << >>

(***************************************************************************)
(* The text built from a list of sections (fullText and chunkText):        *)
(*   `## ${isCollection ? 'Story' : 'Section'} ${num}: ${ch.title}\n        *)
(*    ${ch.content}` joined by '\n\n'.                                      *)
(***************************************************************************)
SectionHeader(num, title, coll) ==
  <<"#", "#", " ">>
  \o (IF coll THEN <<"S", "t", "o", "r", "y">>
              ELSE <<"S", "e", "c", "t", "i", "o", "n">>)
  \o <<" ">> \o DigitChars(num) \o <<":", " ">> \o title \o <<"\n">>

RECURSIVE TextLength(_, _, _)
TextLength(chs, firstNum, coll) ==
  IF chs = << >> THEN 0
  ELSE Len(SectionHeader(firstNum, Head(chs).title, coll)) + Head(chs).contentLen
       + (IF Len(chs) > 1 THEN 2 ELSE 0)
       + TextLength(Tail(chs), firstNum + 1, coll)

\* The section numbers written into the headers of a text.
TextLabels(chs, firstNum) == [i \in 1..Len(chs) |-> firstNum + i - 1]

\* currentProject.chapters.filter(ch => !ch.isFrontMatter)
extractableChaptersOf(chapters) == SelectSeq(chapters, LAMBDA ch : ~ch.isFrontMatter)

\* chunksFrom, had every section been a chunk of its own.
RECURSIVE chunksFromSingles(_, _)
chunksFromSingles(ext, i) ==
  IF i >= Len(ext) THEN << >>
  ELSE << [chapters |-> SubSeq(ext, i + 1, i + 1), startNum |-> i + 1] >>
       \o chunksFromSingles(ext, i + 1)

\* chunksFrom, had the slice ended one section early.
RECURSIVE chunksFromShort(_, _)
chunksFromShort(ext, i) ==
  IF i >= Len(ext) THEN << >>
  ELSE << [chapters |-> SubSeq(ext, i + 1, Min(i + chunkSize - 1, Len(ext))),
           startNum |-> i + 1] >>
       \o chunksFromShort(ext, i + chunkSize)

\* The chunk list of the chunked path.
RECURSIVE chunksFrom(_, _)
chunksFrom(ext, i) ==
  IF i >= Len(ext) THEN << >>
  ELSE << [chapters |-> SubSeq(ext, i + 1, Min(i + chunkSize, Len(ext))),
           startNum |-> i + 1] >>
       \o chunksFrom(ext, i + chunkSize)

chunksOf(ext) == chunksFrom(ext, 0)

\* One call of extractChunk as the service sees it: the call site (the single
\* request or the chunk loop), the text (its section labels, the sections it
\* covers, its length) and the range named in the prompt.
Request(path, chs, sNum, eNum, total, coll) ==
  [path |-> path, startNum |-> sNum, endNum |-> eNum, totalSections |-> total,
   isCollection |-> coll,
   labels |-> TextLabels(chs, sNum),
   sections |-> [i \in 1..Len(chs) |-> chs[i].id],
   textLength |-> TextLength(chs, sNum, coll)]

SingleRequest(ext, coll) == Request("single", ext, 1, Len(ext), Len(ext), coll)

ChunkRequest(chunk, ext, coll) ==
  Request("chunk", chunk.chapters, chunk.startNum,
          chunk.startNum + Len(chunk.chapters) - 1, Len(ext), coll)

(***************************************************************************)
(* A response of the service.  ok is response.ok; content says what the    *)
(* text of the first candidate is: absent ("none"), parseable JSON         *)
(* ("json"), text that does not parse but parses once cut after its last   *)
(* "}," and closed with "]}" ("cut"), text with such a boundary that       *)
(* still does not parse ("cutBad"), text without a boundary ("garbage").   *)
(* entities is parsed.entities of the text that parsed.                    *)
(***************************************************************************)
Responses ==
  { [ok |-> FALSE, content |-> "none", finishReason |-> "STOP", entities |-> << >>],
    [ok |-> TRUE, content |-> "none", finishReason |-> "STOP", entities |-> << >>],
    [ok |-> TRUE, content |-> "garbage", finishReason |-> "MAX_TOKENS", entities |-> << >>],
    [ok |-> TRUE, content |-> "cutBad", finishReason |-> "MAX_TOKENS", entities |-> << >>],
    [ok |-> TRUE, content |-> "cut", finishReason |-> "MAX_TOKENS", entities |-> <<DraftA>>],
    [ok |-> TRUE, content |-> "json", finishReason |-> "MAX_TOKENS",
     entities |-> <<DraftA2, DraftB>>] }
  \cup [ok : {TRUE}, content : {"json"}, finishReason : {"STOP"},
        entities : DraftLists]

\* extractChunk after the fetch: TRUE when it throws.
extractChunkThrows(resp) ==
  \/ ~resp.ok
  \/ resp.content = "none"
  \/ resp.content \in {"cutBad", "garbage"}

\* extractChunk after the fetch: the value it returns when it does not throw.
extractChunkResult(resp) ==
  [entities |-> resp.entities, hitMaxTokens |-> resp.finishReason = "MAX_TOKENS"]

(***************************************************************************)
(* Reconciliation: deduplication (novel mode only), sort, and the mapping  *)
(* to final entities with grid positions.                                  *)
(***************************************************************************)
\* `${entity.type}:${entity.name.toLowerCase().trim()}`
dedupKey(d) == <<d.type, ":">> \o trim(toLowerCase(d.name))

SeqToSet(q) == {q[i] : i \in 1..Len(q)}

\* [...set].sort((a, b) => a - b)
RECURSIVE sortNums(_)
sortNums(S) ==
  IF S = {} THEN << >>
  ELSE LET m == CHOOSE x \in S : \A y \in S : x <= y
       IN <<m>> \o sortNums(S \ {m})

\* mergeNums, had it concatenated the two lists without the Set and the sort.
mergeNumsConcat(existing, entity) ==
  [type |-> existing.type, name |-> existing.name,
   chapterNums |-> NumsOf(existing) \o entity.chapterNums]

\* existing.chapterNums = [...new Set([...(existing.chapterNums || []),
\*                         ...entity.chapterNums])].sort((a,b) => a-b)
mergeNums(existing, entity) ==
  [type |-> existing.type, name |-> existing.name,
   chapterNums |-> sortNums(SeqToSet(NumsOf(existing)) \cup SeqToSet(entity.chapterNums))]

\* One iteration of the deduplication loop: deduped after looking at entity.
dedupStep(deduped, entity) ==
  IF \A i \in 1..Len(deduped) : dedupKey(deduped[i]) # dedupKey(entity)
    THEN Append(deduped, entity)
    ELSE LET k == CHOOSE i \in 1..Len(deduped) :
                    /\ dedupKey(deduped[i]) = dedupKey(entity)
                    /\ \A j \in 1..(i - 1) : dedupKey(deduped[j]) # dedupKey(entity)
         IN IF HasNums(entity)
              THEN [deduped EXCEPT ![k] = mergeNums(deduped[k], entity)]
              ELSE deduped

RECURSIVE dedupFrom(_, _)
dedupFrom(deduped, rest) ==
  IF rest = << >> THEN deduped
  ELSE dedupFrom(dedupStep(deduped, Head(rest)), Tail(rest))

\* deduplicate, had the deduplication not looked at the mode.
deduplicateAlways(all, coll) == dedupFrom(<< >>, all)

\* processedEntities before the sort.
deduplicate(all, coll) == IF coll THEN all ELSE dedupFrom(<< >>, all)

\* typeOrder.indexOf(type), 0-based, -1 when absent.
typeOrder == <<"scene", "character", "location", "theme", "idea">>

typeIndex(t) ==
  IF \E i \in 1..Len(typeOrder) : typeOrder[i] = t
    THEN (CHOOSE i \in 1..Len(typeOrder) : typeOrder[i] = t) - 1
    ELSE -1

\* Math.min(...(e.chapterNums || [999])); Math.min() of nothing is Infinity.
firstCh(d) ==
  IF ~HasNums(d) THEN NoChapterNums
  ELSE IF d.chapterNums = << >> THEN Infinity
  ELSE CHOOSE x \in SeqToSet(d.chapterNums) : \A y \in SeqToSet(d.chapterNums) : x <= y

\* The comparator of processedEntities.sort; Infinity - Infinity is NaN,
\* which sort treats as 0.
sortCompare(a, b) ==
  IF typeIndex(a.type) # typeIndex(b.type) THEN typeIndex(a.type) - typeIndex(b.type)
  ELSE IF firstCh(a) = Infinity /\ firstCh(b) = Infinity THEN 0
  ELSE firstCh(a) - firstCh(b)

\* Array.prototype.sort is stable: x goes behind every element it does not
\* precede.
RECURSIVE sortInsert(_, _)
sortInsert(sorted, x) ==
  IF sorted = << >> THEN <<x>>
  ELSE IF sortCompare(sorted[Len(sorted)], x) <= 0 THEN Append(sorted, x)
  ELSE Append(sortInsert(SubSeq(sorted, 1, Len(sorted) - 1), x), sorted[Len(sorted)])

RECURSIVE sortFrom(_, _)
sortFrom(sorted, rest) ==
  IF rest = << >> THEN sorted
  ELSE sortFrom(sortInsert(sorted, Head(rest)), Tail(rest))

sortEntities(q) == sortFrom(<< >>, q)

\* (entity.chapterNums || []).map(num => ext[num - 1]?.id).filter(Boolean)
resolveIds(d, ext) ==
  LET nums == SelectSeq(NumsOf(d), LAMBDA n : n >= 1 /\ n <= Len(ext))
  IN [i \in 1..Len(nums) |-> ext[nums[i]].id]

\* (entity.chapterNums || []).map(num => ext[num - 1]?.title).filter(Boolean)
resolveTitles(d, ext) ==
  LET nums == SelectSeq(NumsOf(d), LAMBDA n : n >= 1 /\ n <= Len(ext))
  IN [i \in 1..Len(nums) |-> ext[nums[i]].title]

\* gridPosition, had the row been left out.
gridPositionOneRow(i) ==
  [x |-> startX + (i % cardsPerRow) * cardWidth,
   y |-> startY]

\* The grid cell of the i-th entity of a batch (i is 0-based).
gridPosition(i) ==
  [x |-> startX + (i % cardsPerRow) * cardWidth,
   y |-> startY + (i \div cardsPerRow) * cardHeight]

\* One element of finalEntities; i is the 0-based index, id the generated id.
\* The properties of the draft are spread, chapterNums is deleted, and
\* storyRefs is undefined in novel mode.
finalEntity(d, i, id, ext, coll) ==
  [k \in ((DOMAIN d \ {"chapterNums"}) \cup {"id", "chapterRefs", "position"}
           \cup (IF coll THEN {"storyRefs"} ELSE {})) \ (IF coll THEN {} ELSE {"storyRefs"}) |->
     IF k = "id" THEN id
     ELSE IF k = "chapterRefs" THEN resolveIds(d, ext)
     ELSE IF k = "storyRefs" THEN resolveTitles(d, ext)
     ELSE IF k = "position" THEN gridPosition(i)
     ELSE d[k]]

\* finalEntities of a run whose calls produced the drafts all; ids are
\* generated from firstId on.
finalEntitiesOf(all, ext, coll, firstId) ==
  LET processed == sortEntities(deduplicate(all, coll))
  IN [i \in 1..Len(processed) |->
        finalEntity(processed[i], i - 1, firstId + i - 1, ext, coll)]

(***************************************************************************)
(* State.                                                                  *)
(*   geminiKey                TRUE when the stored API key is non-empty    *)
(*   currentProject           [chapters, entities, bookType]               *)
(*   showExtractModal, showExtractConfirmModal, loading   App state        *)
(*   alertMsg                 the alert() shown by the latest step         *)
(*   pc                       where extractEntities is suspended           *)
(*   isCollection, extractableChapters, chunks, chunkIndex,                *)
(*   allNewEntities, needsChunking                                         *)
(*                            locals of the running extractEntities, at    *)
(*                            their initial values when none is running    *)
(*   inflight                 fetch calls not yet answered                 *)
(*   sent, received           requests and responses of the run that is in *)
(*                            progress or has just ended; they are dropped *)
(*                            when the user opens the dialogs again        *)
(*   nextId                   source of generateId                         *)
(*   runs                     extraction runs started so far               *)
(*   importContent            the content of the file handed to            *)
(*                            handleImport                                 *)
(*   importedData             importedData of handleImport                 *)
(*   selectedForMerge         the cards selected in the Corkboard, as they *)
(*                            were when they were selected                 *)
(*   downloads                the files written by exportAsJson            *)
(*   editingChapterId         the chapter open in the ChapterEditor        *)
(*   editorState              title and content of the ChapterEditor       *)
(*   timers                   the pending debounce timers of the editor,   *)
(*                            each with the values its callback closed     *)
(*                            over                                         *)
(*   typed                    what the user typed last into the editor,    *)
(*                            per chapter and field                        *)
(*   library                  the projects in local storage other than the *)
(*                            open one; the auto-save effect writes the    *)
(*                            open one there after every change            *)
(*   pendingImport            the import that waits in the conflict dialog *)
(***************************************************************************)
VARIABLES geminiKey, currentProject, showExtractModal, showExtractConfirmModal,
          loading, alertMsg, pc, isCollection, extractableChapters, chunks,
          chunkIndex, allNewEntities, needsChunking, inflight, sent, received,
          nextId, runs, importContent, importedData, selectedForMerge,
          downloads, editingChapterId, editorState, timers, typed, library,
          pendingImport

vars == <<geminiKey, currentProject, showExtractModal, showExtractConfirmModal,
          loading, alertMsg, pc, isCollection, extractableChapters, chunks,
          chunkIndex, allNewEntities, needsChunking, inflight, sent, received,
          nextId, runs, importContent, importedData, selectedForMerge,
          downloads, editingChapterId, editorState, timers, typed, library,
          pendingImport>>

runLocals == <<isCollection, extractableChapters, chunks, chunkIndex,
               allNewEntities, needsChunking>>

network == <<inflight, sent, received>>

importVars == <<importContent, importedData>>

\* No file has been handed to handleImport.
NoImport ==
  /\ importContent = << >>
  /\ importedData = [type |-> "none"]

deskVars == <<selectedForMerge, downloads, editingChapterId, editorState,
              timers, typed, library, pendingImport>>

\* A sequence of length 0 stands for null, one of length 1 for a value.
Null == << >>

\* The Corkboard has no card selected, nothing was exported, no chapter is
\* open in the ChapterEditor, local storage holds no project but the open
\* one, and no import waits for the user.
NoDesk ==
  /\ selectedForMerge = << >>
  /\ downloads = {}
  /\ editingChapterId = Null
  /\ editorState = Null
  /\ timers = [content |-> Null, title |-> Null]
  /\ typed = {}
  /\ library = {}
  /\ pendingImport = Null

Init ==
  /\ geminiKey \in BOOLEAN
  /\ \E m \in Manuscripts :
       currentProject = [chapters |-> ChapterList(m[1], m[2], m[3]),
                         entities |-> << >>,
                         bookType |-> "undefined"]
  /\ showExtractModal = FALSE
  /\ showExtractConfirmModal = FALSE
  /\ loading = FALSE
  /\ alertMsg = "none"
  /\ pc = "idle"
  /\ isCollection = FALSE
  /\ extractableChapters = << >>
  /\ chunks = << >>
  /\ chunkIndex = 0
  /\ allNewEntities = << >>
  /\ needsChunking = FALSE
  /\ inflight = {}
  /\ sent = << >>
  /\ received = << >>
  /\ nextId = 1
  /\ runs = 0
  /\ NoImport
  /\ NoDesk

(***************************************************************************)
(* The dialogs in front of a run.                                          *)
(***************************************************************************)
handleExtractClick ==
  /\ pc = "idle"
  /\ ~showExtractModal /\ ~showExtractConfirmModal
  /\ runs < MaxRuns
  /\ Len(currentProject.entities) <= MaxBoard
  /\ IF Len(currentProject.entities) > 0
       THEN showExtractConfirmModal' = TRUE /\ UNCHANGED showExtractModal
       ELSE showExtractModal' = TRUE /\ UNCHANGED showExtractConfirmModal
  /\ alertMsg' = "none"
  /\ sent' = << >>
  /\ received' = << >>
  /\ UNCHANGED <<geminiKey, currentProject, loading, pc, runLocals, inflight,
                 nextId, runs>>
  /\ UNCHANGED importVars
  /\ UNCHANGED deskVars

\* handleClearAndExtract, had it left the cards for the run to replace.
handleClearAndExtractLater ==
  /\ pc = "idle"
  /\ showExtractConfirmModal
  /\ showExtractConfirmModal' = FALSE
  /\ showExtractModal' = TRUE
  /\ alertMsg' = "none"
  /\ UNCHANGED <<geminiKey, currentProject, loading, pc, runLocals, network,
                 nextId, runs>>
  /\ UNCHANGED importVars
  /\ UNCHANGED deskVars

handleClearAndExtract ==
  /\ pc = "idle"
  /\ showExtractConfirmModal
  /\ currentProject' = [currentProject EXCEPT !.entities = << >>]
  /\ showExtractConfirmModal' = FALSE
  /\ showExtractModal' = TRUE
  /\ alertMsg' = "none"
  /\ UNCHANGED <<geminiKey, loading, pc, runLocals, network, nextId, runs>>
  /\ UNCHANGED importVars
  /\ UNCHANGED deskVars

handleAddToExisting ==
  /\ pc = "idle"
  /\ showExtractConfirmModal
  /\ showExtractConfirmModal' = FALSE
  /\ showExtractModal' = TRUE
  /\ alertMsg' = "none"
  /\ UNCHANGED <<geminiKey, currentProject, loading, pc, runLocals, network,
                 nextId, runs>>
  /\ UNCHANGED importVars
  /\ UNCHANGED deskVars

\* onCancel of ExtractConfirmModal
cancelExtractConfirm ==
  /\ pc = "idle"
  /\ showExtractConfirmModal
  /\ showExtractConfirmModal' = FALSE
  /\ alertMsg' = "none"
  /\ UNCHANGED <<geminiKey, currentProject, showExtractModal, loading, pc,
                 runLocals, network, nextId, runs>>
  /\ UNCHANGED importVars
  /\ UNCHANGED deskVars

\* onClose of ExtractModal
closeExtractModal ==
  /\ pc = "idle"
  /\ showExtractModal
  /\ showExtractModal' = FALSE
  /\ alertMsg' = "none"
  /\ UNCHANGED <<geminiKey, currentProject, showExtractConfirmModal, loading, pc,
                 runLocals, network, nextId, runs>>
  /\ UNCHANGED importVars
  /\ UNCHANGED deskVars

\* onGeminiKeyChange of ExtractModal: the key field is shown while no key is set
setGeminiKey ==
  /\ pc = "idle"
  /\ showExtractModal
  /\ ~geminiKey
  /\ geminiKey' = TRUE
  /\ alertMsg' = "none"
  /\ UNCHANGED <<currentProject, showExtractModal, showExtractConfirmModal,
                 loading, pc, runLocals, network, nextId, runs>>
  /\ UNCHANGED importVars
  /\ UNCHANGED deskVars

(***************************************************************************)
(* extractEntities.  The function is suspended only inside extractChunk,   *)
(* at the fetch of the single request or of a chunk.                       *)
(***************************************************************************)
\* currentProject is null in the library view.
NoProject == [project |-> "null"]

\* The state after an updater has thrown while React rendered.
RenderError == [project |-> "TypeError"]

\* The updater of the final setCurrentProject; prev.entities of null throws.
commitEntities(prev, finalEntities, coll) ==
  IF prev = NoProject THEN RenderError
  ELSE [prev EXCEPT !.bookType = IF coll THEN "collection" ELSE "novel",
                    !.entities = @ \o finalEntities]

\* issueChunk, had the loop started the call of the following chunk without
\* awaiting the call of chunk idx.
issueChunkParallel(idx, all, cks, ext, coll, trace) ==
  /\ pc' = "awaitChunk"
  /\ chunkIndex' = idx
  /\ allNewEntities' = all
  /\ inflight' = {ChunkRequest(cks[i + 1], ext, coll) :
                    i \in {idx, Min(idx + 1, Len(cks) - 1)}}
  /\ sent' = IF idx + 1 < Len(cks)
               THEN trace \o <<ChunkRequest(cks[idx + 1], ext, coll),
                               ChunkRequest(cks[idx + 2], ext, coll)>>
               ELSE Append(trace, ChunkRequest(cks[idx + 1], ext, coll))

\* The chunk loop reaches chunk idx (0-based) with the drafts all collected
\* so far: extractChunk sends the request of that chunk and suspends.
issueChunk(idx, all, cks, ext, coll, trace) ==
  /\ pc' = "awaitChunk"
  /\ chunkIndex' = idx
  /\ allNewEntities' = all
  /\ inflight' = {ChunkRequest(cks[idx + 1], ext, coll)}
  /\ sent' = Append(trace, ChunkRequest(cks[idx + 1], ext, coll))

\* extractEntities returns: its locals are gone.
dropLocals ==
  /\ isCollection' = FALSE
  /\ extractableChapters' = << >>
  /\ chunks' = << >>
  /\ chunkIndex' = 0
  /\ allNewEntities' = << >>
  /\ needsChunking' = FALSE

\* finishRun, had the project been updated before the check for an empty
\* result.
finishRunCommitFirst(all, ext, coll) ==
  /\ pc' = "idle"
  /\ loading' = FALSE
  /\ inflight' = {}
  /\ dropLocals
  /\ currentProject' =
       commitEntities(currentProject, finalEntitiesOf(all, ext, coll, nextId), coll)
  /\ nextId' = nextId + Len(finalEntitiesOf(all, ext, coll, nextId))
  /\ alertMsg' = IF Len(all) = 0 THEN "No entities could be extracted" ELSE "none"

\* The outer catch, had it left the loading state alone.
failRunStillLoading ==
  /\ pc' = "idle"
  /\ UNCHANGED loading
  /\ inflight' = {}
  /\ alertMsg' = "Extraction failed"
  /\ dropLocals
  /\ UNCHANGED <<currentProject, nextId>>

\* The outer catch.
failRun ==
  /\ pc' = "idle"
  /\ loading' = FALSE
  /\ inflight' = {}
  /\ alertMsg' = "Extraction failed"
  /\ dropLocals
  /\ UNCHANGED <<currentProject, nextId>>

\* The deduplication of novel mode reads entity.name.toLowerCase() of every
\* draft: a draft without a name makes it throw.
reconciliationThrows(all, coll) ==
  ~coll /\ \E i \in 1..Len(all) : "name" \notin DOMAIN all[i]

\* From 'All API calls complete' to the end of the try block.
finishRun(all, ext, coll) ==
  IF Len(all) # 0 /\ reconciliationThrows(all, coll)
    THEN failRun
    ELSE
  /\ pc' = "idle"
  /\ loading' = FALSE
  /\ inflight' = {}
  /\ dropLocals
  /\ IF Len(all) = 0
       THEN /\ alertMsg' = "No entities could be extracted"
            /\ UNCHANGED <<currentProject, nextId>>
       ELSE /\ alertMsg' = "none"
            /\ currentProject' =
                 commitEntities(currentProject,
                                finalEntitiesOf(all, ext, coll, nextId), coll)
            /\ nextId' = nextId + Len(finalEntitiesOf(all, ext, coll, nextId))

\* needsChunkingOf, had the comparison been >=.
needsChunkingOfGE(ext, coll) == TextLength(ext, 1, coll) >= CHUNK_THRESHOLD

\* let needsChunking = fullText.length > CHUNK_THRESHOLD
needsChunkingOf(ext, coll) == TextLength(ext, 1, coll) > CHUNK_THRESHOLD

\* The Extract button of ExtractModal: extractEntities up to its first await.
extractEntities(coll) ==
  /\ pc = "idle"
  /\ showExtractModal
  /\ IF ~geminiKey
       THEN /\ alertMsg' = "Please enter your Gemini API key"
            /\ UNCHANGED <<currentProject, showExtractModal, loading, pc,
                           runLocals, network, nextId, runs>>
       ELSE IF Len(currentProject.chapters) = 0
       THEN /\ alertMsg' = "Import a manuscript first"
            /\ UNCHANGED <<currentProject, showExtractModal, loading, pc,
                           runLocals, network, nextId, runs>>
       ELSE LET ext == extractableChaptersOf(currentProject.chapters)
            IN /\ loading' = TRUE
               /\ showExtractModal' = FALSE
               /\ received' = << >>
               /\ runs' = runs + 1
               /\ isCollection' = coll
               /\ extractableChapters' = ext
               /\ alertMsg' = "none"
               /\ needsChunking' = needsChunkingOf(ext, coll)
               /\ IF ~needsChunkingOf(ext, coll)
                    THEN /\ pc' = "awaitSingle"
                         /\ inflight' = {SingleRequest(ext, coll)}
                         /\ sent' = <<SingleRequest(ext, coll)>>
                         /\ chunks' = << >>
                         /\ chunkIndex' = 0
                         /\ allNewEntities' = << >>
                    ELSE /\ chunks' = chunksOf(ext)
                         /\ issueChunk(0, << >>, chunksOf(ext), ext, coll, << >>)
               /\ UNCHANGED <<currentProject, nextId>>
  /\ UNCHANGED <<geminiKey, showExtractConfirmModal>>
  /\ UNCHANGED importVars
  /\ UNCHANGED deskVars

\* The single request is answered: extractEntities runs on to the first
\* chunk call, or to its end.
singleReturns(resp) ==
  /\ pc = "awaitSingle"
  /\ received' = Append(received, resp)
  /\ IF extractChunkThrows(resp)
       THEN /\ failRun
            /\ UNCHANGED sent
       ELSE IF extractChunkResult(resp).hitMaxTokens
                 /\ Len(chunksOf(extractableChapters)) > 0
       THEN /\ needsChunking' = TRUE
            /\ chunks' = chunksOf(extractableChapters)
            /\ issueChunk(0, << >>, chunksOf(extractableChapters),
                          extractableChapters, isCollection, sent)
            /\ alertMsg' = "none"
            /\ UNCHANGED <<currentProject, nextId, loading, isCollection,
                           extractableChapters>>
       ELSE /\ finishRun(IF extractChunkResult(resp).hitMaxTokens THEN << >>
                         ELSE extractChunkResult(resp).entities,
                         extractableChapters, isCollection)
            /\ UNCHANGED sent
  /\ UNCHANGED <<geminiKey, showExtractModal, showExtractConfirmModal, runs>>
  /\ UNCHANGED importVars
  /\ UNCHANGED deskVars

\* pushChunkResult, had a failed chunk thrown away what was collected.
pushChunkResultReset(all, resp) ==
  IF extractChunkThrows(resp) THEN << >>
  ELSE all \o extractChunkResult(resp).entities

\* pushChunkResult, had it assigned the entities of the chunk instead of
\* pushing them.
pushChunkResultAssign(all, resp) ==
  IF extractChunkThrows(resp) THEN all
  ELSE extractChunkResult(resp).entities

\* allNewEntities after the try/catch around the call of one chunk.
pushChunkResult(all, resp) ==
  IF extractChunkThrows(resp) THEN all
  ELSE all \o extractChunkResult(resp).entities

\* chunkReturns, had it written the entities of each chunk to the project as
\* soon as the chunk is answered.
chunkReturnsIncremental(resp) ==
  /\ pc = "awaitChunk"
  /\ received' = Append(received, resp)
  /\ IF chunkIndex + 1 < Len(chunks)
       THEN /\ issueChunk(chunkIndex + 1, << >>,
                          chunks, extractableChapters, isCollection, sent)
            /\ alertMsg' = "none"
            /\ currentProject' =
                 commitEntities(currentProject,
                                finalEntitiesOf(pushChunkResult(<< >>, resp),
                                                extractableChapters, isCollection,
                                                nextId),
                                isCollection)
            /\ nextId' = nextId + Len(pushChunkResult(<< >>, resp))
            /\ UNCHANGED loading
            /\ UNCHANGED <<isCollection, extractableChapters, chunks,
                           needsChunking>>
       ELSE /\ finishRun(pushChunkResult(<< >>, resp),
                         extractableChapters, isCollection)
            /\ UNCHANGED sent
  /\ UNCHANGED <<geminiKey, showExtractModal, showExtractConfirmModal, runs>>
  /\ UNCHANGED importVars
  /\ UNCHANGED deskVars

\* The call of chunk chunkIndex is answered: the loop goes on to the next
\* chunk, or extractEntities runs to its end.
chunkReturns(resp) ==
  /\ pc = "awaitChunk"
  /\ received' = Append(received, resp)
  /\ IF chunkIndex + 1 < Len(chunks)
       THEN /\ issueChunk(chunkIndex + 1, pushChunkResult(allNewEntities, resp),
                          chunks, extractableChapters, isCollection, sent)
            /\ alertMsg' = "none"
            /\ UNCHANGED <<currentProject, nextId, loading, isCollection,
                           extractableChapters, chunks, needsChunking>>
       ELSE /\ finishRun(pushChunkResult(allNewEntities, resp),
                         extractableChapters, isCollection)
            /\ UNCHANGED sent
  /\ UNCHANGED <<geminiKey, showExtractModal, showExtractConfirmModal, runs>>
  /\ UNCHANGED importVars
  /\ UNCHANGED deskVars

Next ==
  \/ handleExtractClick
  \/ handleClearAndExtract
  \/ handleAddToExisting
  \/ cancelExtractConfirm
  \/ closeExtractModal
  \/ setGeminiKey
  \/ \E coll \in BOOLEAN : extractEntities(coll)
  \/ \E resp \in Responses : singleReturns(resp)
  \/ \E resp \in Responses : chunkReturns(resp)

Spec == Init /\ [][Next]_vars

(***************************************************************************)
(* Reconciliation over a wider range of drafts.  The program is the same;  *)
(* the service answers with parseable JSON whose entities are any list of  *)
(* at most MaxDrafts drafts of DraftPool, the manuscripts are one that     *)
(* goes the single-request path and one that is chunked into two groups,   *)
(* and the user has the Extract dialog open.                               *)
(***************************************************************************)
MaxDrafts == 2

\* Drafts with section numbers out of order, repeated, out of range (0, 9),
\* empty and absent; the first three have the same key.
DraftPool ==
  { DraftA, DraftA2,
    [type |-> "character", name |-> <<"A", "n">>],
    [type |-> "scene", name |-> <<"B", "n">>, chapterNums |-> <<9, 0, 3>>],
    [type |-> "scene", name |-> <<"n">>, chapterNums |-> <<2, 2>>],
    [type |-> "idea", name |-> <<" ", "B">>, chapterNums |-> << >>] }

RECURSIVE SeqsUpTo(_, _)
SeqsUpTo(S, n) ==
  IF n = 0 THEN { << >> }
  ELSE LET shorter == SeqsUpTo(S, n - 1)
       IN shorter \cup {Append(q, x) : q \in shorter, x \in S}

RecResponses ==
  [ok : {TRUE}, content : {"json"}, finishReason : {"STOP"},
   entities : SeqsUpTo(DraftPool, MaxDrafts)]

RecManuscripts == {<<4, 1, SmallLen>>, <<4, 0, 199984>>}

RecInit ==
  /\ geminiKey = TRUE
  /\ \E m \in RecManuscripts :
       currentProject = [chapters |-> ChapterList(m[1], m[2], m[3]),
                         entities |-> << >>,
                         bookType |-> "undefined"]
  /\ showExtractModal = TRUE
  /\ showExtractConfirmModal = FALSE
  /\ loading = FALSE
  /\ alertMsg = "none"
  /\ pc = "idle"
  /\ isCollection = FALSE
  /\ extractableChapters = << >>
  /\ chunks = << >>
  /\ chunkIndex = 0
  /\ allNewEntities = << >>
  /\ needsChunking = FALSE
  /\ inflight = {}
  /\ sent = << >>
  /\ received = << >>
  /\ nextId = 1
  /\ runs = 0
  /\ NoImport
  /\ NoDesk

RecNext ==
  \/ closeExtractModal
  \/ \E coll \in BOOLEAN : extractEntities(coll)
  \/ \E resp \in RecResponses : singleReturns(resp)
  \/ \E resp \in RecResponses : chunkReturns(resp)

RecSpec == RecInit /\ [][RecNext]_vars

(***************************************************************************)
(* The board outside a run: entities added and edited by hand through the  *)
(* entity dialog.  The board is empty or holds one extracted entity, and   *)
(* at most MaxCards entities are put on it.                                *)
(***************************************************************************)
MaxCards == 3

\* 100 + Math.random() * 400 and 100 + Math.random() * 300: the two ends of
\* each range.
RandomXs == {100, 499}
RandomYs == {100, 399}

\* The form of the entity dialog for a new entity.
NewForms ==
  { [type |-> "character", name |-> <<"A", "n">>, chapterRefs |-> << >>],
    [type |-> "idea", name |-> <<"B">>, chapterRefs |-> << >>] }

\* The form of the entity dialog opened on an entity of the board.
EditForms(entities) ==
  {[entities[i] EXCEPT !.name = <<"n">>] : i \in 1..Len(entities)}

\* saveEntity, had a new entity been numbered by its place on the board.
saveEntityNumbered(entity, rx, ry) ==
  /\ pc = "idle"
  /\ ~showExtractModal /\ ~showExtractConfirmModal
  /\ IF "id" \in DOMAIN entity
        /\ \E i \in 1..Len(currentProject.entities) :
             currentProject.entities[i].id = entity.id
       THEN /\ currentProject' =
                 [currentProject EXCEPT !.entities =
                    [i \in 1..Len(@) |-> IF @[i].id = entity.id THEN entity ELSE @[i]]]
            /\ UNCHANGED nextId
       ELSE /\ Len(currentProject.entities) < MaxCards
            /\ currentProject' =
                 [currentProject EXCEPT !.entities =
                    Append(@, [k \in DOMAIN entity \cup {"id", "position"} |->
                                 IF k = "id" THEN Len(currentProject.entities) + 1
                                 ELSE IF k = "position" /\ k \notin DOMAIN entity
                                   THEN [x |-> rx, y |-> ry]
                                 ELSE entity[k]])]
            /\ nextId' = nextId + 1
  /\ alertMsg' = "none"
  /\ UNCHANGED <<geminiKey, showExtractModal, showExtractConfirmModal, loading,
                 pc, runLocals, network, runs>>
  /\ UNCHANGED importVars
  /\ UNCHANGED deskVars

\* saveEntity; rx and ry are the values of the two Math.random() terms.  The
\* dialog state it resets afterwards is not part of the model.
saveEntity(entity, rx, ry) ==
  /\ pc = "idle"
  /\ ~showExtractModal /\ ~showExtractConfirmModal
  /\ IF "id" \in DOMAIN entity
        /\ \E i \in 1..Len(currentProject.entities) :
             currentProject.entities[i].id = entity.id
       THEN /\ currentProject' =
                 [currentProject EXCEPT !.entities =
                    [i \in 1..Len(@) |-> IF @[i].id = entity.id THEN entity ELSE @[i]]]
            /\ UNCHANGED nextId
       ELSE /\ Len(currentProject.entities) < MaxCards
            /\ currentProject' =
                 [currentProject EXCEPT !.entities =
                    Append(@, [k \in DOMAIN entity \cup {"id", "position"} |->
                                 IF k = "id" THEN nextId
                                 ELSE IF k = "position" /\ k \notin DOMAIN entity
                                   THEN [x |-> rx, y |-> ry]
                                 ELSE entity[k]])]
            /\ nextId' = nextId + 1
  /\ alertMsg' = "none"
  /\ UNCHANGED <<geminiKey, showExtractModal, showExtractConfirmModal, loading,
                 pc, runLocals, network, runs>>
  /\ UNCHANGED importVars
  /\ UNCHANGED deskVars

BoardInit ==
  /\ geminiKey = TRUE
  /\ \E batch \in {<< >>, <<DraftA>>} :
       LET chapters == ChapterList(4, 1, SmallLen)
           entities == finalEntitiesOf(batch, extractableChaptersOf(chapters), FALSE, 1)
       IN /\ currentProject = [chapters |-> chapters, entities |-> entities,
                               bookType |-> IF batch = << >> THEN "undefined"
                                            ELSE "novel"]
          /\ nextId = 1 + Len(entities)
          /\ runs = Len(batch)
  /\ showExtractModal = FALSE
  /\ showExtractConfirmModal = FALSE
  /\ loading = FALSE
  /\ alertMsg = "none"
  /\ pc = "idle"
  /\ isCollection = FALSE
  /\ extractableChapters = << >>
  /\ chunks = << >>
  /\ chunkIndex = 0
  /\ allNewEntities = << >>
  /\ needsChunking = FALSE
  /\ inflight = {}
  /\ sent = << >>
  /\ received = << >>
  /\ NoImport
  /\ NoDesk

BoardNext ==
  \E entity \in NewForms \cup EditForms(currentProject.entities) :
    \E rx \in RandomXs, ry \in RandomYs : saveEntity(entity, rx, ry)

BoardSpec == BoardInit /\ [][BoardNext]_vars

(***************************************************************************)
(* Import of a markdown manuscript: handleImport and parseMarkdown.  The   *)
(* file content is a sequence of characters; the files are the texts of at *)
(* most MaxLines lines of LinePool.  A value that may be null is a         *)
(* sequence of length 0 (null) or 1.  Chapters carry their content here.   *)
(***************************************************************************)
MaxLines == 5

\* '# T', '# U', '## A', '## B', 'x' and the empty line.
LinePool ==
  { <<"#", " ", "T">>, <<"#", " ", "U">>, <<"#", "#", " ", "A">>,
    <<"#", "#", " ", "B">>, <<"x">>, << >> }

\* lines.join('\n')
RECURSIVE join(_)
join(lines) ==
  IF lines = << >> THEN << >>
  ELSE IF Len(lines) = 1 THEN lines[1]
  ELSE lines[1] \o <<"\n">> \o join(Tail(lines))

\* markdown.split('\n')
RECURSIVE split(_)
split(markdown) ==
  IF \A i \in 1..Len(markdown) : markdown[i] # "\n" THEN <<markdown>>
  ELSE LET k == CHOOSE i \in 1..Len(markdown) :
                  /\ markdown[i] = "\n"
                  /\ \A j \in 1..(i - 1) : markdown[j] # "\n"
       IN <<SubSeq(markdown, 1, k - 1)>> \o split(SubSeq(markdown, k + 1, Len(markdown)))

Documents == {join(lines) : lines \in SeqsUpTo(LinePool, MaxLines)}

\* line.match(/^#\s+(.+)$/) and line.match(/^##\s+(.+)$/): hashes is the
\* number of '#'; a line holds no line terminator.
headerMatch(line, hashes) ==
  /\ Len(line) >= hashes + 2
  /\ \A i \in 1..hashes : line[i] = "#"
  /\ line[hashes + 1] \in WhiteSpace

\* Group 1 of the match: \s+ is greedy but leaves one character to (.+).
headerText(line, hashes) ==
  LET rest == SubSeq(line, hashes + 1, Len(line))
  IN IF trimStart(rest) # << >> THEN trimStart(rest) ELSE <<rest[Len(rest)]>>

FrontMatterTitle == <<"F", "r", "o", "n", "t", " ", "M", "a", "t", "t", "e", "r">>

\* The state of the line loop of parseMarkdown before the first line; ids
\* are generated from firstId on.
parseStart(firstId) ==
  [chapters |-> << >>, bookTitle |-> << >>, currentChapter |-> << >>,
   contentBuffer |-> << >>, frontMatterBuffer |-> << >>,
   foundFirstChapter |-> FALSE, nextId |-> firstId]

\* The chapter under construction with its content, as pushed to chapters.
closeChapter(st) ==
  IF st.currentChapter = << >> THEN << >>
  ELSE <<[st.currentChapter[1] EXCEPT !.content = trim(join(st.contentBuffer))]>>

\* parseLine, had a first-level header line behind the title been skipped
\* like the title line.
parseLineSkipH1(st, line) ==
  IF headerMatch(line, 1)
    THEN IF st.bookTitle = << >>
           THEN [st EXCEPT !.bookTitle = <<headerText(line, 1)>>]
           ELSE st
  ELSE IF headerMatch(line, 2)
    THEN LET frontMatterContent == trim(join(st.frontMatterBuffer))
             front == IF /\ ~st.foundFirstChapter
                         /\ st.frontMatterBuffer # << >>
                         /\ frontMatterContent # << >>
                        THEN <<[id |-> st.nextId, title |-> FrontMatterTitle,
                                content |-> frontMatterContent, order |-> 0,
                                isFrontMatter |-> TRUE]>>
                        ELSE << >>
             pushed == st.chapters \o front \o closeChapter(st)
         IN [st EXCEPT !.chapters = pushed,
                       !.foundFirstChapter = TRUE,
                       !.currentChapter =
                          <<[id |-> st.nextId + Len(front),
                             title |-> headerText(line, 2),
                             content |-> << >>, order |-> Len(pushed) + 1,
                             isFrontMatter |-> FALSE]>>,
                       !.contentBuffer = << >>,
                       !.nextId = st.nextId + Len(front) + 1]
  ELSE IF st.currentChapter # << >>
    THEN [st EXCEPT !.contentBuffer = Append(@, line)]
  ELSE IF st.bookTitle # << >>
    THEN [st EXCEPT !.frontMatterBuffer = Append(@, line)]
  ELSE st

\* One iteration of the line loop of parseMarkdown.  A chapter that is not
\* front matter has no isFrontMatter in the code; it is FALSE here.
parseLine(st, line) ==
  IF headerMatch(line, 1) /\ st.bookTitle = << >>
    THEN [st EXCEPT !.bookTitle = <<headerText(line, 1)>>]
  ELSE IF headerMatch(line, 2)
    THEN LET frontMatterContent == trim(join(st.frontMatterBuffer))
             front == IF /\ ~st.foundFirstChapter
                         /\ st.frontMatterBuffer # << >>
                         /\ frontMatterContent # << >>
                        THEN <<[id |-> st.nextId, title |-> FrontMatterTitle,
                                content |-> frontMatterContent, order |-> 0,
                                isFrontMatter |-> TRUE]>>
                        ELSE << >>
             pushed == st.chapters \o front \o closeChapter(st)
         IN [st EXCEPT !.chapters = pushed,
                       !.foundFirstChapter = TRUE,
                       !.currentChapter =
                          <<[id |-> st.nextId + Len(front),
                             title |-> headerText(line, 2),
                             content |-> << >>, order |-> Len(pushed) + 1,
                             isFrontMatter |-> FALSE]>>,
                       !.contentBuffer = << >>,
                       !.nextId = st.nextId + Len(front) + 1]
  ELSE IF st.currentChapter # << >>
    THEN [st EXCEPT !.contentBuffer = Append(@, line)]
  ELSE IF st.bookTitle # << >>
    THEN [st EXCEPT !.frontMatterBuffer = Append(@, line)]
  ELSE st

RECURSIVE parseLines(_, _)
parseLines(st, lines) ==
  IF lines = << >> THEN st
  ELSE parseLines(parseLine(st, Head(lines)), Tail(lines))

\* renumber, had the chapters kept the order given when they were created.
renumberNone(chapters) == chapters

\* chapters.forEach((ch, i) => ...): front matter is 0, the others start at 1.
renumber(chapters) ==
  [j \in 1..Len(chapters) |->
     [chapters[j] EXCEPT !.order =
        IF chapters[j].isFrontMatter THEN 0
        ELSE (j - 1) + (IF chapters[1].isFrontMatter THEN 0 ELSE 1)]]

\* fallbackLine, had it taken only second-level headers for headers.
fallbackLineH2Only(st, line) ==
  IF headerMatch(line, 2)
    THEN [st EXCEPT !.chapters = @ \o closeChapter(st),
                    !.currentChapter =
                       <<[id |-> st.nextId, title |-> headerText(line, 2),
                          content |-> << >>,
                          order |-> Len(st.chapters \o closeChapter(st)) + 1,
                          isFrontMatter |-> FALSE]>>,
                    !.contentBuffer = << >>,
                    !.nextId = st.nextId + 1]
  ELSE IF st.currentChapter # << >>
    THEN [st EXCEPT !.contentBuffer = Append(@, line)]
  ELSE st

\* One iteration of the line loop of parseMarkdownFallback; /^#{1,2}\s+(.+)$/
\* takes two hashes where it can.
fallbackLine(st, line) ==
  IF headerMatch(line, 1) \/ headerMatch(line, 2)
    THEN [st EXCEPT !.chapters = @ \o closeChapter(st),
                    !.currentChapter =
                       <<[id |-> st.nextId,
                          title |-> headerText(line, IF headerMatch(line, 2)
                                                       THEN 2 ELSE 1),
                          content |-> << >>,
                          order |-> Len(st.chapters \o closeChapter(st)) + 1,
                          isFrontMatter |-> FALSE]>>,
                    !.contentBuffer = << >>,
                    !.nextId = st.nextId + 1]
  ELSE IF st.currentChapter # << >>
    THEN [st EXCEPT !.contentBuffer = Append(@, line)]
  ELSE st

RECURSIVE fallbackLines(_, _)
fallbackLines(st, lines) ==
  IF lines = << >> THEN st
  ELSE fallbackLines(fallbackLine(st, Head(lines)), Tail(lines))

\* parseMarkdownFallback: { bookTitle: null, chapters }, and the next free id.
parseMarkdownFallback(markdown, firstId) ==
  LET st == fallbackLines(parseStart(firstId), split(markdown))
  IN [bookTitle |-> << >>, chapters |-> st.chapters \o closeChapter(st),
      nextId |-> st.nextId]

\* parseMarkdown: { bookTitle, chapters }, and the next free id.
parseMarkdown(markdown, firstId) ==
  LET st == parseLines(parseStart(firstId), split(markdown))
      chapters == st.chapters \o closeChapter(st)
  IN IF Len(chapters) = 0 THEN parseMarkdownFallback(markdown, firstId)
     ELSE [bookTitle |-> st.bookTitle, chapters |-> renumber(chapters),
           nextId |-> st.nextId]

\* handleImport(content, false) in a library that holds no project of the
\* imported title: completeImport makes the imported chapters the chapters of
\* a new project with no entities.
handleImport ==
  /\ pc = "idle"
  /\ importedData.type = "none"
  /\ LET parsed == parseMarkdown(importContent, nextId)
     IN /\ importedData' = [type |-> "markdown", bookTitle |-> parsed.bookTitle,
                            chapters |-> parsed.chapters]
        /\ currentProject' = [chapters |-> parsed.chapters, entities |-> << >>,
                              bookType |-> "undefined"]
        /\ nextId' = parsed.nextId
  /\ alertMsg' = "none"
  /\ UNCHANGED <<geminiKey, showExtractModal, showExtractConfirmModal, loading,
                 pc, runLocals, network, runs, importContent>>
  /\ UNCHANGED deskVars

ImportInit ==
  /\ importContent \in Documents
  /\ importedData = [type |-> "none"]
  /\ geminiKey = FALSE
  /\ currentProject = [chapters |-> << >>, entities |-> << >>,
                       bookType |-> "undefined"]
  /\ showExtractModal = FALSE
  /\ showExtractConfirmModal = FALSE
  /\ loading = FALSE
  /\ alertMsg = "none"
  /\ pc = "idle"
  /\ isCollection = FALSE
  /\ extractableChapters = << >>
  /\ chunks = << >>
  /\ chunkIndex = 0
  /\ allNewEntities = << >>
  /\ needsChunking = FALSE
  /\ inflight = {}
  /\ sent = << >>
  /\ received = << >>
  /\ nextId = 1
  /\ runs = 0
  /\ NoDesk

ImportNext == handleImport

ImportSpec == ImportInit /\ [][ImportNext]_vars

(***************************************************************************)
(* The text of an answer: extractChunk from the text of the first          *)
(* candidate to its return value.  A text is a sequence of characters, a   *)
(* parsed JSON value is [t, v]: a string ("str", its characters), a number *)
(* ("num"), an array ("arr", its elements) or an object ("obj", its        *)
(* members <<key, value>> in source order).  The texts hold no escape      *)
(* sequence and none of the literals true, false and null.                 *)
(***************************************************************************)
Digits == <<"0", "1", "2", "3", "4", "5", "6", "7", "8", "9">>

isDigit(c) == \E d \in 1..Len(Digits) : Digits[d] = c

digitValue(c) == (CHOOSE d \in 1..Len(Digits) : Digits[d] = c) - 1

jsonFail == [ok |-> FALSE, val |-> [t |-> "none"], pos |-> 0]

\* The first position from i on that holds no white space.
RECURSIVE skipWhiteSpace(_, _)
skipWhiteSpace(s, i) ==
  IF i <= Len(s) /\ s[i] \in WhiteSpace THEN skipWhiteSpace(s, i + 1) ELSE i

\* A string that opens at i: it runs to the next quote and holds no line end.
jsonString(s, i) ==
  IF \A k \in (i + 1)..Len(s) : s[k] # "\""
    THEN jsonFail
    ELSE LET close == CHOOSE k \in (i + 1)..Len(s) :
                        /\ s[k] = "\""
                        /\ \A j \in (i + 1)..(k - 1) : s[j] # "\""
         IN IF \E j \in (i + 1)..(close - 1) : s[j] = "\n"
              THEN jsonFail
              ELSE [ok |-> TRUE,
                    val |-> [t |-> "str", v |-> SubSeq(s, i + 1, close - 1)],
                    pos |-> close + 1]

\* A number that starts at i: 0, or a run of digits that does not start
\* with 0.
RECURSIVE jsonDigits(_, _, _)
jsonDigits(s, i, n) ==
  IF i <= Len(s) /\ isDigit(s[i])
    THEN jsonDigits(s, i + 1, 10 * n + digitValue(s[i]))
    ELSE [ok |-> TRUE, val |-> [t |-> "num", v |-> n], pos |-> i]

jsonNumber(s, i) ==
  IF s[i] = "0" THEN [ok |-> TRUE, val |-> [t |-> "num", v |-> 0], pos |-> i + 1]
  ELSE jsonDigits(s, i, 0)

RECURSIVE jsonValue(_, _)
RECURSIVE jsonElements(_, _, _)
RECURSIVE jsonMembers(_, _, _)

\* The value that starts at the first position from i on that is no white
\* space.
jsonValue(s, i) ==
  LET k == skipWhiteSpace(s, i)
  IN IF k > Len(s) THEN jsonFail
     ELSE IF s[k] = "\"" THEN jsonString(s, k)
     ELSE IF isDigit(s[k]) THEN jsonNumber(s, k)
     ELSE IF s[k] = "["
       THEN LET j == skipWhiteSpace(s, k + 1)
            IN IF j <= Len(s) /\ s[j] = "]"
                 THEN [ok |-> TRUE, val |-> [t |-> "arr", v |-> << >>], pos |-> j + 1]
                 ELSE jsonElements(s, k + 1, << >>)
     ELSE IF s[k] = "{"
       THEN LET j == skipWhiteSpace(s, k + 1)
            IN IF j <= Len(s) /\ s[j] = "}"
                 THEN [ok |-> TRUE, val |-> [t |-> "obj", v |-> << >>], pos |-> j + 1]
                 ELSE jsonMembers(s, k + 1, << >>)
     ELSE jsonFail

\* The elements of an array from i on, behind the elements acc.
jsonElements(s, i, acc) ==
  LET r == jsonValue(s, i)
      j == skipWhiteSpace(s, r.pos)
  IN IF ~r.ok \/ j > Len(s) THEN jsonFail
     ELSE IF s[j] = "," THEN jsonElements(s, j + 1, Append(acc, r.val))
     ELSE IF s[j] = "]"
       THEN [ok |-> TRUE, val |-> [t |-> "arr", v |-> Append(acc, r.val)],
             pos |-> j + 1]
     ELSE jsonFail

\* The members of an object from i on, behind the members acc.
jsonMembers(s, i, acc) ==
  LET k == skipWhiteSpace(s, i)
      key == IF k <= Len(s) /\ s[k] = "\"" THEN jsonString(s, k) ELSE jsonFail
      c == skipWhiteSpace(s, key.pos)
      r == IF key.ok /\ c <= Len(s) /\ s[c] = ":" THEN jsonValue(s, c + 1)
           ELSE jsonFail
      j == skipWhiteSpace(s, r.pos)
  IN IF ~r.ok \/ j > Len(s) THEN jsonFail
     ELSE IF s[j] = ","
       THEN jsonMembers(s, j + 1, Append(acc, <<key.val.v, r.val>>))
     ELSE IF s[j] = "}"
       THEN [ok |-> TRUE,
             val |-> [t |-> "obj", v |-> Append(acc, <<key.val.v, r.val>>)],
             pos |-> j + 1]
     ELSE jsonFail

\* JSON.parse(s): ok is FALSE when it throws.
JSONparse(s) ==
  LET r == jsonValue(s, 1)
  IN IF r.ok /\ skipWhiteSpace(s, r.pos) > Len(s) THEN r ELSE jsonFail

\* TRUE when pat stands in s at position i.
startsAt(s, i, pat) ==
  /\ i + Len(pat) - 1 <= Len(s)
  /\ \A k \in 1..Len(pat) : s[i + k - 1] = pat[k]

\* s.replace(/<fence>\n?/g, ''): every fence, with the line end behind it
\* when there is one, is taken out.
RECURSIVE removeFence(_, _)
removeFence(s, fence) ==
  IF \A i \in 1..Len(s) : ~startsAt(s, i, fence) THEN s
  ELSE LET at == CHOOSE i \in 1..Len(s) :
                   /\ startsAt(s, i, fence)
                   /\ \A j \in 1..(i - 1) : ~startsAt(s, j, fence)
           after == at + Len(fence) - 1
                      + (IF startsAt(s, at + Len(fence), <<"\n">>) THEN 1 ELSE 0)
       IN SubSeq(s, 1, at - 1) \o removeFence(SubSeq(s, after + 1, Len(s)), fence)

\* The grave accent, which a string of this language cannot hold, and the
\* fence of three of them.
GraveAccent == "grave"

Fence == <<GraveAccent, GraveAccent, GraveAccent>>

\* cleanedContent: the fences with json, then the bare fences, are taken
\* out and the rest is trimmed.
cleanContent(content) ==
  trim(removeFence(removeFence(content, Fence \o <<"j", "s", "o", "n">>), Fence))

\* lastIndexOf, had the search run from the front (indexOf).
firstIndexOf(s, pat) ==
  IF \A i \in 1..Len(s) : ~startsAt(s, i, pat) THEN -1
  ELSE (CHOOSE i \in 1..Len(s) :
          /\ startsAt(s, i, pat)
          /\ \A j \in 1..(i - 1) : ~startsAt(s, j, pat)) - 1

\* s.lastIndexOf(pat): 0-based, -1 when pat does not occur.
lastIndexOf(s, pat) ==
  IF \A i \in 1..Len(s) : ~startsAt(s, i, pat) THEN -1
  ELSE (CHOOSE i \in 1..Len(s) :
          /\ startsAt(s, i, pat)
          /\ \A j \in (i + 1)..Len(s) : ~startsAt(s, j, pat)) - 1

\* cleanedContent.substring(0, lastCompleteEntity + 1) + ']}'
salvaged(cleaned) ==
  SubSeq(cleaned, 1, lastIndexOf(cleaned, <<"}", ",">>) + 1) \o <<"]", "}">>

\* The outcome of the text of an answer in the terms of Responses: content
\* says which branch of extractChunk the text takes.
contentOf(text) ==
  IF text = << >> THEN "none"
  ELSE IF JSONparse(cleanContent(text)).ok THEN "json"
  ELSE IF lastIndexOf(cleanContent(text), <<"}", ",">>) > 0
    THEN IF JSONparse(salvaged(cleanContent(text))).ok THEN "cut" ELSE "cutBad"
  ELSE "garbage"

\* obj[key] of a parsed object: a sequence of length 0 (undefined) or 1; the
\* last member of that name counts.
member(val, key) ==
  IF val.t # "obj" THEN << >>
  ELSE LET at == {i \in 1..Len(val.v) : val.v[i][1] = key}
       IN IF at = {} THEN << >>
          ELSE <<val.v[CHOOSE i \in at : \A j \in at : j <= i][2]>>

KeyEntities == <<"e", "n", "t", "i", "t", "i", "e", "s">>
KeyType == <<"t", "y", "p", "e">>
KeyName == <<"n", "a", "m", "e">>
KeyChapterNums == <<"c", "h", "a", "p", "t", "e", "r", "N", "u", "m", "s">>

\* The names of the kinds as they stand in a text.
KindNames ==
  [scene |-> <<"s", "c", "e", "n", "e">>,
   character |-> <<"c", "h", "a", "r", "a", "c", "t", "e", "r">>,
   location |-> <<"l", "o", "c", "a", "t", "i", "o", "n">>,
   theme |-> <<"t", "h", "e", "m", "e">>,
   idea |-> <<"i", "d", "e", "a">>]

\* The draft a parsed entity object stands for: its type, its name and, when
\* it has one, its chapterNums (the other members are not read).
draftOf(val) ==
  LET type == CHOOSE t \in DOMAIN KindNames : KindNames[t] = member(val, KeyType)[1].v
      name == member(val, KeyName)[1].v
      nums == member(val, KeyChapterNums)
  IN IF nums = << >> THEN [type |-> type, name |-> name]
     ELSE [type |-> type, name |-> name,
           chapterNums |-> [i \in 1..Len(nums[1].v) |-> nums[1].v[i].v]]

\* parsed.entities || [] of the text that parsed.
entitiesOf(text) ==
  LET cleaned == cleanContent(text)
      parsed == IF JSONparse(cleaned).ok THEN JSONparse(cleaned).val
                ELSE JSONparse(salvaged(cleaned)).val
      entities == member(parsed, KeyEntities)
  IN IF contentOf(text) \notin {"json", "cut"} \/ entities = << >> THEN << >>
     ELSE [i \in 1..Len(entities[1].v) |-> draftOf(entities[1].v[i])]

\* The answers of the service here: the text of a list of at most MaxRecords
\* records of RecordPool, '{"entities":[' record ',' record ... ']}', whole,
\* whole between code fences, or cut after any number of characters.  list
\* and cut say how the text was made; the program does not read them.
MaxRecords == 3

\* A record as text and as the draft it stands for.  The second one holds a
\* nested object, and with it a '},' in its middle:
\*   {"type":"scene","name":"B","chapterNums":[1]}
\*   {"type":"scene","name":"An","meta":{"k":1},"chapterNums":[1]}
RecordPool ==
  { [text |->
        <<"{", "\"", "t", "y", "p", "e", "\"", ":", "\"", "s", "c", "e",
          "n", "e", "\"", ",", "\"", "n", "a", "m", "e", "\"", ":", "\"",
          "B", "\"", ",", "\"", "c", "h", "a", "p", "t", "e", "r", "N",
          "u", "m", "s", "\"", ":", "[", "1", "]", "}">>,
     draft |-> [type |-> "scene", name |-> <<"B">>, chapterNums |-> <<1>>]],
    [text |->
        <<"{", "\"", "t", "y", "p", "e", "\"", ":", "\"", "s", "c", "e",
          "n", "e", "\"", ",", "\"", "n", "a", "m", "e", "\"", ":", "\"",
          "A", "n", "\"", ",", "\"", "m", "e", "t", "a", "\"", ":", "{",
          "\"", "k", "\"", ":", "1", "}", ",", "\"", "c", "h", "a", "p",
          "t", "e", "r", "N", "u", "m", "s", "\"", ":", "[", "1", "]", "}">>,
     draft |-> [type |-> "scene", name |-> <<"A", "n">>, chapterNums |-> <<1>>]] }

ListOpen ==
  <<"{", "\"", "e", "n", "t", "i", "t", "i", "e", "s", "\"", ":", "[">>

ListClose == <<"]", "}">>

RECURSIVE recordsText(_)
recordsText(list) ==
  IF list = << >> THEN << >>
  ELSE IF Len(list) = 1 THEN list[1].text
  ELSE list[1].text \o <<",">> \o recordsText(Tail(list))

listText(list) == ListOpen \o recordsText(list) \o ListClose

FenceOpen == Fence \o <<"j", "s", "o", "n", "\n">>
FenceClose == <<"\n">> \o Fence

\* The response whose first candidate holds text.
responseOf(text, finishReason, list, cut) ==
  [ok |-> TRUE, content |-> contentOf(text), finishReason |-> finishReason,
   entities |-> entitiesOf(text), text |-> text, list |-> list, cut |-> cut]

TextResponses ==
  UNION { {responseOf(listText(list), "STOP", list, Len(listText(list))),
           responseOf(FenceOpen \o listText(list) \o FenceClose, "STOP", list,
                      Len(listText(list)))}
          \cup {responseOf(SubSeq(listText(list), 1, cut), "MAX_TOKENS", list, cut) :
                  cut \in 0..(Len(listText(list)) - 1)}
          : list \in SeqsUpTo(RecordPool, MaxRecords) }

\* A manuscript of one section over the threshold: a run is one chunk call.
TextInit ==
  /\ geminiKey = TRUE
  /\ currentProject = [chapters |-> ChapterList(1, 0, 199984),
                       entities |-> << >>,
                       bookType |-> "undefined"]
  /\ showExtractModal = TRUE
  /\ showExtractConfirmModal = FALSE
  /\ loading = FALSE
  /\ alertMsg = "none"
  /\ pc = "idle"
  /\ isCollection = FALSE
  /\ extractableChapters = << >>
  /\ chunks = << >>
  /\ chunkIndex = 0
  /\ allNewEntities = << >>
  /\ needsChunking = FALSE
  /\ inflight = {}
  /\ sent = << >>
  /\ received = << >>
  /\ nextId = 1
  /\ runs = 0
  /\ NoImport
  /\ NoDesk

TextNext ==
  \/ closeExtractModal
  \/ \E coll \in BOOLEAN : extractEntities(coll)
  \/ \E resp \in TextResponses : chunkReturns(resp)

TextSpec == TextInit /\ [][TextNext]_vars

(***************************************************************************)
(* The project as a whole: chapters reordered in the timeline, the project *)
(* exported as JSON and a JSON file imported again.  A project is          *)
(* [id, title, chapters, entities, customFolders, bookType]; bookType is   *)
(* "undefined" while the property is absent.  At most MaxFiles files are   *)
(* exported, and local storage holds at most MaxFiles projects beside the  *)
(* open one.                                                               *)
(***************************************************************************)
MaxFiles == 1

UntitledNovel ==
  <<"U", "n", "t", "i", "t", "l", "e", "d", " ", "N", "o", "v", "e", "l">>

\* No extraction run is in progress and no dialog of a run is open.
NoRun ==
  /\ showExtractModal = FALSE
  /\ showExtractConfirmModal = FALSE
  /\ loading = FALSE
  /\ alertMsg = "none"
  /\ pc = "idle"
  /\ isCollection = FALSE
  /\ extractableChapters = << >>
  /\ chunks = << >>
  /\ chunkIndex = 0
  /\ allNewEntities = << >>
  /\ needsChunking = FALSE
  /\ inflight = {}
  /\ sent = << >>
  /\ received = << >>
  /\ runs = 0

runVars == <<showExtractModal, showExtractConfirmModal, loading, pc, runLocals,
             network, runs>>

\* createEmptyProject(), with id the generated id.
createEmptyProject(id) ==
  [id |-> id, title |-> UntitledNovel, chapters |-> << >>, entities |-> << >>,
   customFolders |-> << >>, bookType |-> "undefined"]

\* The entries of the project index: the auto-save effect keeps the entry of
\* the open project up to date.
projectIndex ==
  {[id |-> p.id, title |-> p.title] : p \in library \cup {currentProject}}

\* q after const [moved] = q.splice(fromIndex, 1); q.splice(toIndex, 0, moved)
moveItem(q, fromIndex, toIndex) ==
  LET rest == [i \in 1..(Len(q) - 1) |-> IF i <= fromIndex THEN q[i] ELSE q[i + 1]]
  IN [i \in 1..Len(q) |->
        IF i <= toIndex THEN rest[i]
        ELSE IF i = toIndex + 1 THEN q[fromIndex + 1]
        ELSE rest[i - 1]]

\* reorderChapters(fromIndex, toIndex), called by the drop of the chapter
\* card at fromIndex on the card at toIndex.
reorderChapters(fromIndex, toIndex) ==
  /\ pc = "idle"
  /\ pendingImport = Null
  /\ fromIndex # toIndex
  /\ currentProject' =
       [currentProject EXCEPT !.chapters =
          LET newChapters == moveItem(@, fromIndex, toIndex)
          IN [i \in 1..Len(newChapters) |-> [newChapters[i] EXCEPT !.order = i]]]
  /\ UNCHANGED <<geminiKey, alertMsg, nextId, runVars, importVars, selectedForMerge,
                 downloads, editingChapterId, editorState, timers, typed,
                 library, pendingImport>>

\* JSON.stringify(currentProject) read back by JSON.parse: the properties
\* whose value is undefined are not in the file.
stringify(project) ==
  IF project.bookType = "undefined"
    THEN [k \in DOMAIN project \ {"bookType"} |-> project[k]]
    ELSE project

\* exportAsJson: the file is written to the downloads.
exportAsJson ==
  /\ pc = "idle"
  /\ pendingImport = Null
  /\ stringify(currentProject) \in downloads \/ Cardinality(downloads) < MaxFiles
  /\ downloads' = downloads \cup {stringify(currentProject)}
  /\ UNCHANGED <<geminiKey, currentProject, alertMsg, nextId, runVars, importVars,
                 selectedForMerge, editingChapterId, editorState, timers, typed,
                 library, pendingImport>>

\* The chapters and the entities of completeImport for a JSON file whose
\* chapters and entities all have an id and whose entities have a position
\* (ch.order || i + 1 with the 0-based index i).
importedChapters(data) ==
  [i \in 1..Len(data.chapters) |->
     [data.chapters[i] EXCEPT !.order = IF @ # 0 THEN @ ELSE i]]

importedEntities(data) == data.entities

\* completeImport(importedData, title) without overwriteId: a new project;
\* the project that was open stays in local storage.  The Corkboard is keyed
\* by the id of the project, so it is mounted anew with no card selected.
completeImportNew(data, title) ==
  /\ Cardinality(library) < MaxFiles
  /\ currentProject' =
       [createEmptyProject(nextId) EXCEPT !.title = title,
                                          !.chapters = importedChapters(data),
                                          !.entities = importedEntities(data)]
  /\ nextId' = nextId + 1
  /\ library' = library \cup {currentProject}
  /\ pendingImport' = Null
  /\ selectedForMerge' = << >>

\* completeImport(importedData, title, overwriteId): the stored project of
\* that id is replaced by the file.
completeImportOverwrite(data, title, overwriteId) ==
  /\ currentProject' =
       [k \in DOMAIN data \cup {"id", "title", "chapters", "entities", "bookType"} |->
          IF k = "id" THEN overwriteId
          ELSE IF k = "title" THEN title
          ELSE IF k = "chapters" THEN importedChapters(data)
          ELSE IF k = "entities" THEN importedEntities(data)
          ELSE IF k \in DOMAIN data THEN data[k]
          ELSE "undefined"]
  /\ library' = {p \in library \cup {currentProject} : p.id # overwriteId}
  /\ pendingImport' = Null
  /\ selectedForMerge' = IF overwriteId = currentProject.id THEN selectedForMerge
                         ELSE << >>
  /\ UNCHANGED nextId

\* data.title || 'Untitled Novel'
importedTitleOf(data) ==
  IF "title" \in DOMAIN data /\ data.title # << >> THEN data.title ELSE UntitledNovel

\* handleImport(content, true) for a file of the downloads.
handleImportJson(content) ==
  /\ pc = "idle"
  /\ pendingImport = Null
  /\ content \in downloads
  /\ LET existing == {p \in projectIndex :
                        toLowerCase(p.title) = toLowerCase(importedTitleOf(content))}
     IN IF existing # {}
          THEN /\ pendingImport' =
                    <<[type |-> "json", data |-> content,
                       title |-> importedTitleOf(content),
                       existingProject |-> CHOOSE p \in existing : TRUE]>>
               /\ UNCHANGED <<currentProject, nextId, library, selectedForMerge>>
          ELSE completeImportNew(content, importedTitleOf(content))
  /\ UNCHANGED <<geminiKey, alertMsg, runVars, importVars, downloads,
                 editingChapterId, editorState, timers, typed>>

\* `${baseTitle} v${version}` with the first version from 2 on that no
\* project of the index has.
RECURSIVE versionedTitle(_, _)
versionedTitle(baseTitle, version) ==
  LET title == baseTitle \o <<" ", "v">> \o DigitChars(version)
  IN IF \E p \in projectIndex : toLowerCase(p.title) = toLowerCase(title)
       THEN versionedTitle(baseTitle, version + 1)
       ELSE title

\* handleConflictResolution(action)
handleConflictResolution(action) ==
  /\ pc = "idle"
  /\ pendingImport # Null
  /\ IF action = "overwrite"
       THEN completeImportOverwrite(pendingImport[1].data, pendingImport[1].title,
                                    pendingImport[1].existingProject.id)
     ELSE IF action = "new"
       THEN completeImportNew(pendingImport[1].data,
                              versionedTitle(pendingImport[1].title, 2))
     ELSE /\ pendingImport' = Null
          /\ UNCHANGED <<currentProject, nextId, library, selectedForMerge>>
  /\ UNCHANGED <<geminiKey, alertMsg, runVars, importVars, downloads,
                 editingChapterId, editorState, timers, typed>>

\* The manuscripts of the project: '# T / x / ## A / x / ## B' with a title
\* and front matter, and '## A / ## B' with neither.
ShelfDocuments ==
  { join(<<<<"#", " ", "T">>, <<"x">>, <<"#", "#", " ", "A">>, <<"x">>, <<"#", "#", " ", "B">>>>),
    join(<<<<"#", "#", " ", "A">>, <<"#", "#", " ", "B">>>>) }

\* The project completeImport makes of a markdown file, with one extracted
\* card put into the custom folder F by hand, or with none.
ShelfProjects ==
  { LET parsed == parseMarkdown(doc, 1)
        project == [createEmptyProject(parsed.nextId) EXCEPT
                      !.title = IF parsed.bookTitle = << >> THEN UntitledNovel
                                ELSE parsed.bookTitle[1],
                      !.chapters = parsed.chapters]
        cards == finalEntitiesOf(batch, extractableChaptersOf(parsed.chapters),
                                 FALSE, parsed.nextId + 1)
    IN IF batch = << >> THEN project
       ELSE [project EXCEPT
               !.entities = [i \in 1..Len(cards) |->
                               [k \in DOMAIN cards[i] \cup {"folder", "starred"} |->
                                  IF k = "folder" THEN <<"F">>
                                  ELSE IF k = "starred" THEN TRUE
                                  ELSE cards[i][k]]],
               !.customFolders = <<<<"F">>>>,
               !.bookType = "novel"]
    : doc \in ShelfDocuments, batch \in {<< >>, <<DraftA>>} }

ShelfInit ==
  /\ geminiKey = TRUE
  /\ currentProject \in ShelfProjects
  /\ nextId = currentProject.id + 1 + Len(currentProject.entities)
  /\ NoRun
  /\ NoImport
  /\ NoDesk

ShelfNext ==
  \/ \E fromIndex, toIndex \in 0..(Len(currentProject.chapters) - 1) :
       reorderChapters(fromIndex, toIndex)
  \/ exportAsJson
  \/ \E content \in downloads : handleImportJson(content)
  \/ \E action \in {"overwrite", "new", "cancel"} : handleConflictResolution(action)

ShelfSpec == ShelfInit /\ [][ShelfNext]_vars

(***************************************************************************)
(* The ChapterEditor.  It keeps title and content in local state and       *)
(* writes each to the project from a debounce timer (1000 ms for content,  *)
(* 500 ms for title) that every later render of the effect clears and      *)
(* starts again.  A timer whose callback would find nothing to write       *)
(* (content === chapter.content) is not kept in timers.  The auto-save     *)
(* effect of App writes the open project to local storage after every      *)
(* change of currentProject, so local storage holds currentProject.  The   *)
(* project is the one imported from '## A / ## B'.                         *)
(***************************************************************************)
\* What the user types into a field of the editor.
EditorTexts == { <<"y">>, <<"z">> }

\* The chapter of the open project with that id.
chapterOf(chapterId) ==
  LET chapters == currentProject.chapters
  IN chapters[CHOOSE i \in 1..Len(chapters) : chapters[i].id = chapterId]

\* The state variables the editor leaves alone.
besideEditor == <<geminiKey, alertMsg, nextId, runVars, importVars,
                  selectedForMerge, downloads, library, pendingImport>>

\* onChapterClick of the TimelinePanel.  The editor is mounted with the
\* title and content of the chapter; when it is already open on another
\* chapter, its sync effect sets them and the timer effects run again with
\* the new values, so that the pending timers are cleared.
openChapter(chapterId) ==
  /\ pc = "idle"
  /\ pendingImport = Null
  /\ \E i \in 1..Len(currentProject.chapters) : currentProject.chapters[i].id = chapterId
  /\ editingChapterId # <<chapterId>>
  /\ editingChapterId' = <<chapterId>>
  /\ editorState' = <<[title |-> chapterOf(chapterId).title,
                       content |-> chapterOf(chapterId).content]>>
  /\ timers' = [content |-> Null, title |-> Null]
  /\ UNCHANGED <<currentProject, typed, besideEditor>>

\* onClose of the editor: it is unmounted and the cleanups of its effects
\* clear the timers.
closeEditor ==
  /\ editingChapterId # Null
  /\ editingChapterId' = Null
  /\ editorState' = Null
  /\ timers' = [content |-> Null, title |-> Null]
  /\ UNCHANGED <<currentProject, typed, besideEditor>>

\* The set typed with the entry of that chapter and field replaced.
typedWith(chapterId, field, value) ==
  {t \in typed : t.chapterId # chapterId \/ t.field # field}
    \cup {[chapterId |-> chapterId, field |-> field, value |-> value]}

\* onChange of the textarea: setContent, and the content effect starts its
\* timer again.
typeContent(value) ==
  /\ editingChapterId # Null
  /\ value # editorState[1].content
  /\ editorState' = <<[editorState[1] EXCEPT !.content = value]>>
  /\ timers' = [timers EXCEPT !.content =
                  IF value # chapterOf(editingChapterId[1]).content
                    THEN <<[chapterId |-> editingChapterId[1], value |-> value]>>
                    ELSE Null]
  /\ typed' = typedWith(editingChapterId[1], "content", value)
  /\ UNCHANGED <<currentProject, editingChapterId, besideEditor>>

\* onChange of the title input.
typeTitle(value) ==
  /\ editingChapterId # Null
  /\ value # editorState[1].title
  /\ editorState' = <<[editorState[1] EXCEPT !.title = value]>>
  /\ timers' = [timers EXCEPT !.title =
                  IF value # chapterOf(editingChapterId[1]).title
                    THEN <<[chapterId |-> editingChapterId[1], value |-> value]>>
                    ELSE Null]
  /\ typed' = typedWith(editingChapterId[1], "title", value)
  /\ UNCHANGED <<currentProject, editingChapterId, besideEditor>>

\* updateChapterContent / updateChapterTitle
updateChapter(project, chapterId, field, value) ==
  [project EXCEPT !.chapters =
     [i \in 1..Len(@) |->
        IF @[i].id = chapterId
          THEN [k \in DOMAIN @[i] |-> IF k = field THEN value ELSE @[i][k]]
          ELSE @[i]]]

\* The timer of a field fires: the chapter is updated, the editor is
\* rendered with the changed chapter, and its sync effect sets title and
\* content to those of the chapter; both timer effects run again and find
\* nothing to write.
timerFires(field) ==
  /\ timers[field] # Null
  /\ currentProject' = updateChapter(currentProject, timers[field][1].chapterId,
                                     field, timers[field][1].value)
  /\ editorState' =
       LET chapter == updateChapter(currentProject, timers[field][1].chapterId,
                                    field, timers[field][1].value)
                        .chapters[CHOOSE i \in 1..Len(currentProject.chapters) :
                                    currentProject.chapters[i].id = editingChapterId[1]]
       IN <<[title |-> chapter.title, content |-> chapter.content]>>
  /\ timers' = [content |-> Null, title |-> Null]
  /\ UNCHANGED <<editingChapterId, typed, besideEditor>>

EditorInit ==
  /\ geminiKey = TRUE
  /\ currentProject \in {p \in ShelfProjects : p.title = UntitledNovel}
  /\ nextId = currentProject.id + 1 + Len(currentProject.entities)
  /\ NoRun
  /\ NoImport
  /\ NoDesk

EditorNext ==
  \/ \E chapterId \in {currentProject.chapters[i].id :
                         i \in 1..Len(currentProject.chapters)} :
       openChapter(chapterId)
  \/ closeEditor
  \/ \E value \in EditorTexts : typeContent(value)
  \/ \E value \in EditorTexts : typeTitle(value)
  \/ \E field \in {"content", "title"} : timerFires(field)

EditorSpec == EditorInit /\ [][EditorNext]_vars

(***************************************************************************)
(* The cards of the Corkboard outside a run: cards are selected for a      *)
(* merge (the selection holds the entity objects as they were when they    *)
(* were selected), merged, dragged, starred, deleted, edited and added     *)
(* from a type folder or from a custom folder.  The board starts with the  *)
(* cards an extraction in novel mode has left.                             *)
(***************************************************************************)
\* The state variables the card operations leave alone.
besideCards == <<geminiKey, alertMsg, runVars, importVars, downloads,
                 editingChapterId, editorState, timers, typed, library,
                 pendingImport>>

entityIds(project) == {project.entities[i].id : i \in 1..Len(project.entities)}

\* entity.type, undefined for an entity without the property.
typeOf(entity) == IF "type" \in DOMAIN entity THEN entity.type ELSE "undefined"

\* toggleMergeSelection(entity) for a card of the open folder.
toggleMergeSelection(entity) ==
  /\ pc = "idle"
  /\ selectedForMerge' =
       IF \E i \in 1..Len(selectedForMerge) : selectedForMerge[i].id = entity.id
         THEN SelectSeq(selectedForMerge, LAMBDA e : e.id # entity.id)
       ELSE IF Len(selectedForMerge) > 0 /\ typeOf(selectedForMerge[1]) # typeOf(entity)
         THEN selectedForMerge
       ELSE IF Len(selectedForMerge) >= 2 THEN selectedForMerge
       ELSE Append(selectedForMerge, entity)
  /\ selectedForMerge' # selectedForMerge
  /\ UNCHANGED <<currentProject, nextId, besideCards>>

\* [...new Set(q)]: q without the later occurrences of its elements.
uniqueInOrder(q) ==
  SelectSeq([i \in 1..Len(q) |-> [v |-> q[i], first |-> \A j \in 1..(i - 1) : q[j] # q[i]]],
            LAMBDA x : x.first)

withoutRepeats(q) == [i \in 1..Len(uniqueInOrder(q)) |-> uniqueInOrder(q)[i].v]

\* entity[key] || [] for a list property.
listOf(entity, key) == IF key \in DOMAIN entity THEN entity[key] ELSE << >>

\* [a.description, b.description].filter(Boolean).join('\n\n')
joinedDescriptions(a, b) ==
  LET da == listOf(a, "description")
      db == listOf(b, "description")
  IN IF da = << >> THEN db
     ELSE IF db = << >> THEN da
     ELSE da \o <<"\n", "\n">> \o db

\* merged of mergeEntities; a storyRefs of undefined is left out.
mergedEntity(keepEntity, mergeEntity) ==
  LET keys == DOMAIN keepEntity \cup {"description", "chapterRefs"}
                \cup (IF "storyRefs" \in DOMAIN keepEntity
                         \/ "storyRefs" \in DOMAIN mergeEntity
                        THEN {"storyRefs"} ELSE {})
  IN [k \in keys |->
        IF k = "description" THEN joinedDescriptions(keepEntity, mergeEntity)
        ELSE IF k = "chapterRefs"
          THEN withoutRepeats(listOf(keepEntity, k) \o listOf(mergeEntity, k))
        ELSE IF k = "storyRefs"
          THEN withoutRepeats(listOf(keepEntity, k) \o listOf(mergeEntity, k))
        ELSE keepEntity[k]]

\* mergeEntities(keepEntity, mergeEntity)
mergeEntities(project, keepEntity, mergeEntity) ==
  [project EXCEPT !.entities =
     LET kept == SelectSeq(@, LAMBDA e : e.id # mergeEntity.id)
     IN [i \in 1..Len(kept) |->
           IF kept[i].id = keepEntity.id THEN mergedEntity(keepEntity, mergeEntity)
           ELSE kept[i]]]

\* The merge button of the Corkboard with two cards selected.
mergeSelected ==
  /\ pc = "idle"
  /\ Len(selectedForMerge) = 2
  /\ currentProject' = mergeEntities(currentProject, selectedForMerge[1],
                                     selectedForMerge[2])
  /\ selectedForMerge' = << >>
  /\ UNCHANGED <<nextId, besideCards>>

\* updateEntityPosition(id, x, y) at the end of a drag.
updateEntityPosition(id, x, y) ==
  /\ pc = "idle"
  /\ id \in entityIds(currentProject)
  /\ currentProject' =
       [currentProject EXCEPT !.entities =
          [i \in 1..Len(@) |->
             IF @[i].id = id THEN [@[i] EXCEPT !.position = [x |-> x, y |-> y]]
             ELSE @[i]]]
  /\ currentProject' # currentProject
  /\ UNCHANGED <<nextId, selectedForMerge, besideCards>>

\* toggleStar(id): starred: !e.starred
toggleStar(id) ==
  /\ pc = "idle"
  /\ id \in entityIds(currentProject)
  /\ currentProject' =
       [currentProject EXCEPT !.entities =
          [i \in 1..Len(@) |->
             IF @[i].id = id
               THEN [k \in DOMAIN @[i] \cup {"starred"} |->
                       IF k = "starred"
                         THEN ~("starred" \in DOMAIN @[i] /\ @[i].starred)
                         ELSE @[i][k]]
               ELSE @[i]]]
  /\ UNCHANGED <<nextId, selectedForMerge, besideCards>>

\* deleteEntity(id)
deleteEntity(id) ==
  /\ pc = "idle"
  /\ id \in entityIds(currentProject)
  /\ currentProject' =
       [currentProject EXCEPT !.entities = SelectSeq(@, LAMBDA e : e.id # id)]
  /\ UNCHANGED <<nextId, selectedForMerge, besideCards>>

\* The form of the entity dialog opened by the add button of a custom
\* folder, after a name was typed: the dialog starts from { folder }, and
\* the type select shows its first option without setting form.type.
FolderForms == { [folder |-> <<"F">>, name |-> <<"B">>] }

\* Cards are added by hand while fewer than MaxIds - 1 ids are in use.
MaxIds == 4

\* The end of a drag.
DragPositions == { [x |-> 7, y |-> 9] }

\* The cards of an extraction in novel mode, each with the description of
\* its draft.
CardInit ==
  /\ geminiKey = TRUE
  /\ LET chapters == ChapterList(4, 1, SmallLen)
         drafts == <<[type |-> "scene", name |-> <<"B">>, chapterNums |-> <<1>>],
                     [type |-> "scene", name |-> <<"n">>, chapterNums |-> <<2, 1>>]>>
         cards == finalEntitiesOf(drafts, extractableChaptersOf(chapters), FALSE, 1)
     IN /\ currentProject =
             [id |-> 0, title |-> UntitledNovel, chapters |-> chapters,
              entities |-> [i \in 1..Len(cards) |->
                              [k \in DOMAIN cards[i] \cup {"description"} |->
                                 IF k = "description" THEN cards[i].name
                                 ELSE cards[i][k]]],
              customFolders |-> <<<<"F">>>>, bookType |-> "novel"]
        /\ nextId = 1 + Len(cards)
  /\ NoRun
  /\ NoImport
  /\ NoDesk

CardNext ==
  \/ \E i \in 1..Len(currentProject.entities) :
       toggleMergeSelection(currentProject.entities[i])
  \/ mergeSelected
  \/ \E id \in entityIds(currentProject), p \in DragPositions :
       updateEntityPosition(id, p.x, p.y)
  \/ \E id \in entityIds(currentProject) : toggleStar(id)
  \/ \E id \in entityIds(currentProject) : deleteEntity(id)
  \/ \E entity \in EditForms(currentProject.entities) : saveEntity(entity, 100, 100)
  \/ \E entity \in NewForms \cup FolderForms :
       /\ nextId < MaxIds
       /\ saveEntity(entity, 100, 100)

CardSpec == CardInit /\ [][CardNext]_vars

(***************************************************************************)
(* The ids of the entities: a project after a first extraction run and an  *)
(* export, through further runs that are answered by one response, cards   *)
(* added, edited, deleted and merged by hand, and imports of the exported  *)
(* file over the project, whose title the file has.                        *)
(***************************************************************************)
\* The answers of the service: two scenes, or a failed request.
IdResponses ==
  { [ok |-> TRUE, content |-> "json", finishReason |-> "STOP",
     entities |-> <<[type |-> "scene", name |-> <<"B">>, chapterNums |-> <<1>>],
                    [type |-> "scene", name |-> <<"n">>, chapterNums |-> <<2, 1>>]>>],
    [ok |-> FALSE, content |-> "none", finishReason |-> "STOP", entities |-> << >>] }

\* The project after the first run, which the first of IdResponses answered.
IdProject ==
  LET chapters == ChapterList(2, 0, SmallLen)
      resp == CHOOSE r \in IdResponses : r.ok
  IN commitEntities(
       [id |-> 0, title |-> UntitledNovel,
        chapters |-> [i \in 1..Len(chapters) |->
                        [k \in DOMAIN chapters[i] \cup {"order"} |->
                           IF k = "order" THEN i ELSE chapters[i][k]]],
        entities |-> << >>, customFolders |-> << >>, bookType |-> "undefined"],
       finalEntitiesOf(resp.entities, extractableChaptersOf(chapters), FALSE, 1),
       FALSE)

IdInit ==
  /\ geminiKey = TRUE
  /\ currentProject = IdProject
  /\ nextId = 1 + Len(IdProject.entities)
  /\ showExtractModal = FALSE
  /\ showExtractConfirmModal = FALSE
  /\ loading = FALSE
  /\ alertMsg = "none"
  /\ pc = "idle"
  /\ isCollection = FALSE
  /\ extractableChapters = << >>
  /\ chunks = << >>
  /\ chunkIndex = 0
  /\ allNewEntities = << >>
  /\ needsChunking = FALSE
  /\ inflight = {}
  /\ sent = << >>
  /\ received = << >>
  /\ runs = 1
  /\ NoImport
  /\ selectedForMerge = << >>
  /\ downloads = {stringify(IdProject)}
  /\ editingChapterId = Null
  /\ editorState = Null
  /\ timers = [content |-> Null, title |-> Null]
  /\ typed = {}
  /\ library = {}
  /\ pendingImport = Null

IdNext ==
  \/ handleExtractClick
  \/ handleClearAndExtract
  \/ handleAddToExisting
  \/ extractEntities(FALSE)
  \/ \E resp \in IdResponses : singleReturns(resp)
  \/ \E i \in 1..Len(currentProject.entities) :
       toggleMergeSelection(currentProject.entities[i])
  \/ mergeSelected
  \/ \E id \in entityIds(currentProject) : deleteEntity(id)
  \/ \E i \in 1..Len(currentProject.entities) :
       saveEntity(currentProject.entities[i], 100, 100)
  \/ \E entity \in {form \in NewForms : form.type = "idea"} :
       /\ nextId < MaxIds
       /\ saveEntity(entity, 100, 100)
  \/ \E content \in downloads : handleImportJson(content)
  \/ \E action \in {"overwrite", "cancel"} : handleConflictResolution(action)

IdSpec == IdInit /\ [][IdNext]_vars

(***************************************************************************)
(* One extraction run from the open ExtractModal to its end.  Every call   *)
(* of the service returns or fails in the end: the two actions that        *)
(* answer a call are weakly fair.                                          *)
(***************************************************************************)
\* The answers of the service: a failed request, an empty list, a list of
\* one draft, a truncated list, and a list with a draft that has no name.
RunResponses ==
  { [ok |-> FALSE, content |-> "none", finishReason |-> "STOP", entities |-> << >>],
    [ok |-> TRUE, content |-> "json", finishReason |-> "STOP", entities |-> << >>],
    [ok |-> TRUE, content |-> "json", finishReason |-> "STOP", entities |-> <<DraftA>>],
    [ok |-> TRUE, content |-> "cut", finishReason |-> "MAX_TOKENS",
     entities |-> <<DraftA>>],
    [ok |-> TRUE, content |-> "json", finishReason |-> "STOP",
     entities |-> <<[type |-> "idea", chapterNums |-> <<1>>]>>] }

RunInit ==
  /\ geminiKey = TRUE
  /\ \E m \in Manuscripts :
       currentProject = [chapters |-> ChapterList(m[1], m[2], m[3]),
                         entities |-> << >>,
                         bookType |-> "undefined"]
  /\ nextId = 1
  /\ NoRun
  /\ NoImport
  /\ NoDesk

RunNext ==
  \/ handleExtractClick
  \/ \E coll \in BOOLEAN : extractEntities(coll)
  \/ \E resp \in RunResponses : singleReturns(resp)
  \/ \E resp \in RunResponses : chunkReturns(resp)

RunSpec ==
  /\ RunInit
  /\ [][RunNext]_vars
  /\ WF_vars(\E resp \in RunResponses : singleReturns(resp))
  /\ WF_vars(\E resp \in RunResponses : chunkReturns(resp))

(***************************************************************************)
(* A run while the user leaves the project.  The handlers of the TopBar    *)
(* and of the library view do not look at the loading state, and the       *)
(* library view does not render the loading overlay.                       *)
(***************************************************************************)
\* The state variables the change of the project leaves alone.
besideProject == <<geminiKey, alertMsg, runVars, importVars, selectedForMerge,
                   downloads, editingChapterId, editorState, timers, typed,
                   pendingImport>>

\* goToLibrary from the TopBar of the editor view; local storage keeps the
\* project.
goToLibrary ==
  /\ currentProject \notin {NoProject, RenderError}
  /\ currentProject' = NoProject
  /\ library' = library \cup {currentProject}
  /\ UNCHANGED <<nextId, besideProject>>

\* openProject(projectId) from a card of the library view.
openProject(projectId) ==
  /\ currentProject = NoProject
  /\ \E project \in library :
       /\ project.id = projectId
       /\ currentProject' = project
       /\ library' = library \ {project}
  /\ UNCHANGED <<nextId, besideProject>>

\* createNewProject from the library view.
createNewProject ==
  /\ currentProject = NoProject
  /\ nextId < MaxIds
  /\ currentProject' = createEmptyProject(nextId)
  /\ nextId' = nextId + 1
  /\ UNCHANGED <<library, besideProject>>

\* The answers of the service: a list of one draft, and a truncated list.
SwitchResponses ==
  { [ok |-> TRUE, content |-> "json", finishReason |-> "STOP", entities |-> <<DraftA>>],
    [ok |-> TRUE, content |-> "cut", finishReason |-> "MAX_TOKENS",
     entities |-> <<DraftA>>] }

\* A stored project of n sections whose chapter ids start at firstId.
storedProject(id, n, firstId) ==
  [id |-> id, title |-> UntitledNovel,
   chapters |-> [i \in 1..n |->
                   [ChapterList(n, 0, SmallLen)[i] EXCEPT !.id = firstId + i]],
   entities |-> << >>, customFolders |-> << >>, bookType |-> "undefined"]

\* The ExtractModal is open on a project of four sections; local storage
\* holds a second project.
SwitchInit ==
  /\ geminiKey = TRUE
  /\ currentProject = storedProject(1, 4, 100)
  /\ nextId = 3
  /\ showExtractModal = TRUE
  /\ showExtractConfirmModal = FALSE
  /\ loading = FALSE
  /\ alertMsg = "none"
  /\ pc = "idle"
  /\ isCollection = FALSE
  /\ extractableChapters = << >>
  /\ chunks = << >>
  /\ chunkIndex = 0
  /\ allNewEntities = << >>
  /\ needsChunking = FALSE
  /\ inflight = {}
  /\ sent = << >>
  /\ received = << >>
  /\ runs = 0
  /\ NoImport
  /\ selectedForMerge = << >>
  /\ downloads = {}
  /\ editingChapterId = Null
  /\ editorState = Null
  /\ timers = [content |-> Null, title |-> Null]
  /\ typed = {}
  /\ library = {storedProject(2, 2, 200)}
  /\ pendingImport = Null

SwitchNext ==
  \/ /\ currentProject \notin {NoProject, RenderError}
     /\ \E coll \in BOOLEAN : extractEntities(coll)
  \/ \E resp \in SwitchResponses : singleReturns(resp)
  \/ \E resp \in SwitchResponses : chunkReturns(resp)
  \/ goToLibrary
  \/ \E project \in library : openProject(project.id)
  \/ createNewProject

SwitchSpec == SwitchInit /\ [][SwitchNext]_vars

(***************************************************************************)
(* 'Clear All & Re-extract' on a board that a first run of one request has *)
(* filled: the user presses Extract, chooses to clear or cancels, and      *)
(* starts the run or closes the dialog.                                    *)
(***************************************************************************)
ClearManuscripts == {<<1, 0, SmallLen>>, <<2, 1, SmallLen>>, <<4, 0, SmallLen>>}

ClearInit ==
  /\ geminiKey = TRUE
  /\ \E m \in ClearManuscripts :
       LET chapters == ChapterList(m[1], m[2], m[3])
           cards == finalEntitiesOf(<<DraftA>>, extractableChaptersOf(chapters),
                                    FALSE, 1)
       IN /\ currentProject = [chapters |-> chapters, entities |-> cards,
                               bookType |-> "novel"]
          /\ nextId = 1 + Len(cards)
          /\ sent = <<SingleRequest(extractableChaptersOf(chapters), FALSE)>>
  /\ showExtractModal = FALSE
  /\ showExtractConfirmModal = FALSE
  /\ loading = FALSE
  /\ alertMsg = "none"
  /\ pc = "idle"
  /\ isCollection = FALSE
  /\ extractableChapters = << >>
  /\ chunks = << >>
  /\ chunkIndex = 0
  /\ allNewEntities = << >>
  /\ needsChunking = FALSE
  /\ inflight = {}
  /\ received = <<[ok |-> TRUE, content |-> "json", finishReason |-> "STOP",
                   entities |-> <<DraftA>>]>>
  /\ runs = 1
  /\ NoImport
  /\ NoDesk

ClearNext ==
  \/ handleExtractClick
  \/ handleClearAndExtract
  \/ cancelExtractConfirm
  \/ closeExtractModal
  \/ \E coll \in BOOLEAN : extractEntities(coll)
  \/ \E resp \in RunResponses : singleReturns(resp)
  \/ \E resp \in RunResponses : chunkReturns(resp)

ClearSpec == ClearInit /\ [][ClearNext]_vars

(***************************************************************************)
(* Properties.                                                             *)
(***************************************************************************)

\* C1: after any sequence of extraction runs on one project, 'Add to
\* Existing' runs included, no two entities of the project overlap on the
\* board (overlap: both axis distances smaller than the cell width 240 and
\* the cell height 180).
C1_NoOverlappingEntities ==
  \A i, j \in 1..Len(currentProject.entities) :
    i < j =>
      LET p == currentProject.entities[i].position
          q == currentProject.entities[j].position
          dx == IF p.x >= q.x THEN p.x - q.x ELSE q.x - p.x
          dy == IF p.y >= q.y THEN p.y - q.y ELSE q.y - p.y
      IN ~(dx < 240 /\ dy < 180)

\* C2: an extraction run changes the entity collection of the project at
\* most once, in the step that ends the run, when every call of the run is
\* answered and every chunk of the chunked path has been called; a run that
\* ends with an alert changes nothing.  No step in the middle of a run
\* changes the collection.
C2_CollectionUpdatedOnceAtEnd ==
  [][ LET n == Cardinality({i \in 1..Len(currentProject.chapters) :
                              ~currentProject.chapters[i].isFrontMatter})
          chunkCalls == Cardinality({i \in 1..Len(sent') : sent'[i].path = "chunk"})
      IN (pc # "idle" \/ pc' # "idle") =>
           \/ currentProject' = currentProject
           \/ /\ pc # "idle" /\ pc' = "idle"
              /\ alertMsg' = "none"
              /\ inflight' = {}
              /\ Len(received') = Len(sent')
              /\ chunkCalls > 0 => chunkCalls = (n + 2) \div 3
              /\ Len(currentProject'.entities) > Len(currentProject.entities)
              /\ SubSeq(currentProject'.entities, 1, Len(currentProject.entities))
                   = currentProject.entities
              /\ currentProject'.chapters = currentProject.chapters
    ]_vars

\* A chunked run of at least two chunks has ended and added entities.
C2_Witness ==
  /\ pc = "idle"
  /\ Len(received) >= 2
  /\ \A i \in 1..Len(sent) : sent[i].path = "chunk"
  /\ Len(currentProject.entities) >= 2
  /\ alertMsg = "none"

C4_TruncatedSingleFallsBack ==
  [][ LET ext == SelectSeq(currentProject.chapters, LAMBDA ch : ~ch.isFrontMatter)
          n == Len(ext)
          added == SubSeq(currentProject'.entities, Len(currentProject.entities) + 1,
                          Len(currentProject'.entities))
      IN /\ (/\ pc = "awaitSingle"
             /\ received'[Len(received')].ok
             /\ received'[Len(received')].finishReason = "MAX_TOKENS"
             /\ n > 0)
            => /\ pc' = "awaitChunk"
               /\ sent'[Len(sent')].path = "chunk"
               /\ sent'[Len(sent')].startNum = 1
               /\ sent'[Len(sent')].sections
                    = [i \in 1..(IF n < 3 THEN n ELSE 3) |-> ext[i].id]
         /\ (/\ pc # "idle" /\ pc' = "idle"
             /\ sent'[1].path = "single"
             /\ received'[1].ok
             /\ received'[1].finishReason = "MAX_TOKENS")
            => \A e \in 1..Len(added) :
                 \E i \in 2..Len(received') :
                   /\ received'[i].ok
                   /\ received'[i].content \in {"json", "cut"}
                   /\ \E m \in 1..Len(received'[i].entities) :
                        /\ received'[i].entities[m].type = added[e].type
                        /\ received'[i].entities[m].name = added[e].name
    ]_vars

\* C5: at most one service call is outstanding at any time, a call is
\* started only when all earlier calls of the run are answered, and the
\* chunk calls of a run are issued in ascending group order: the j-th covers
\* sections 3(j-1)+1 .. min(3j, N).  A finished chunked run over 7
\* extractable sections has made exactly three chunk calls, for sections
\* 1-3, 4-6 and 7, in that order.
C5_OneCallAtATimeInOrder ==
  LET n == Cardinality({i \in 1..Len(currentProject.chapters) :
                          ~currentProject.chapters[i].isFrontMatter})
      chunkCalls == SelectSeq(sent, LAMBDA r : r.path = "chunk")
  IN /\ Cardinality(inflight) <= 1
     /\ Len(sent) = Len(received) + Cardinality(inflight)
     /\ inflight # {} => inflight = {sent[Len(sent)]}
     /\ \A j \in 1..Len(chunkCalls) :
          /\ chunkCalls[j].startNum = 3 * (j - 1) + 1
          /\ chunkCalls[j].endNum = (IF 3 * j < n THEN 3 * j ELSE n)
     /\ (n = 7 /\ pc = "idle" /\ Len(chunkCalls) > 0)
          => [j \in 1..Len(chunkCalls) |->
                <<chunkCalls[j].startNum, chunkCalls[j].endNum>>]
             = << <<1, 3>>, <<4, 6>>, <<7, 7>> >>

\* A run over 7 extractable sections whose text is over the threshold has
\* ended after three chunk calls.
C5_Witness ==
  /\ pc = "idle"
  /\ Len(sent) = 3
  /\ Len(received) = 3
  /\ sent[1].path = "chunk"
  /\ sent[1].totalSections = 7
  /\ sent[1].textLength > 200000

\* C6: the chunk groups of the chunked path partition the extractable
\* (non-front-matter) sections of the project: concatenated in order they
\* give exactly the extractable section list, and no group is empty.
C6_ChunksPartitionExtractable ==
  LET ext == SelectSeq(currentProject.chapters, LAMBDA ch : ~ch.isFrontMatter)
      RECURSIVE concat(_)
      concat(groups) ==
        IF groups = << >> THEN << >>
        ELSE Head(groups).chapters \o concat(Tail(groups))
  IN needsChunking =>
       /\ concat(chunks) = ext
       /\ \A i \in 1..Len(chunks) : Len(chunks[i].chapters) > 0

\* A chunked run over a project with front matter has three groups, the
\* last one of a single section.
C6_Witness ==
  /\ needsChunking
  /\ Len(chunks) = 3
  /\ Len(chunks[3].chapters) = 1
  /\ \E i \in 1..Len(currentProject.chapters) :
       currentProject.chapters[i].isFrontMatter

\* C7: a run starts with the single request, over all extractable sections
\* labelled 1..N, exactly when the serialized length of the extractable
\* sections ("## Section i: title", newline, content, joined by two
\* newlines; "Story" in collection mode) is <= 200000; the chunked path has
\* ceil(N/3) groups, the call of group j (0-based) covers sections
\* 3j+1 .. min(3j+3, N), and its text labels each section with its absolute
\* 1-based number.
C7_ThresholdAndGrouping ==
  LET ext == SelectSeq(currentProject.chapters, LAMBDA ch : ~ch.isFrontMatter)
      n == Len(ext)
      unitLen == IF sent[1].isCollection THEN 5 ELSE 7
      RECURSIVE serialized(_)
      serialized(i) ==
        IF i > n THEN 0
        ELSE 3 + unitLen + 1 + (IF i < 10 THEN 1 ELSE 2) + 2 + Len(ext[i].title) + 1
             + ext[i].contentLen + (IF i < n THEN 2 ELSE 0) + serialized(i + 1)
      chunkCalls == SelectSeq(sent, LAMBDA r : r.path = "chunk")
      groups == (n + 2) \div 3
  IN sent # << >> =>
       /\ sent[1].path = "single" <=> serialized(1) <= 200000
       /\ sent[1].path = "single" =>
            /\ sent[1].labels = [i \in 1..n |-> i]
            /\ sent[1].sections = [i \in 1..n |-> ext[i].id]
       /\ pc = "awaitChunk" => Len(chunks) = groups
       /\ (pc = "idle" /\ Len(chunkCalls) > 0) => Len(chunkCalls) = groups
       /\ \A j \in 0..(Len(chunkCalls) - 1) :
            LET first == 3 * j + 1
                last == IF 3 * j + 3 < n THEN 3 * j + 3 ELSE n
            IN /\ chunkCalls[j + 1].startNum = first
               /\ chunkCalls[j + 1].endNum = last
               /\ chunkCalls[j + 1].labels = [i \in 1..(last - first + 1) |-> first + i - 1]
               /\ chunkCalls[j + 1].sections
                    = [i \in 1..(last - first + 1) |-> ext[first + i - 1].id]

\* A run whose text is exactly 200000 characters long has sent the single
\* request.
C7_Witness ==
  /\ sent # << >>
  /\ sent[1].path = "single"
  /\ sent[1].textLength = 200000

C9_EmptyResultLeavesProject ==
  [][ /\ ((pc # "idle" \/ pc' # "idle") /\ ~(pc # "idle" /\ pc' = "idle"))
            => currentProject' = currentProject
      /\ (/\ pc # "idle" /\ pc' = "idle"
          /\ Len(received') = Len(sent')
          /\ \A i \in 1..Len(received') :
               (/\ received'[i].ok
                /\ received'[i].content \in {"json", "cut"}
                /\ sent'[i].path = "chunk" \/ received'[i].finishReason # "MAX_TOKENS")
               => Len(received'[i].entities) = 0)
            => /\ alertMsg' \in {"No entities could be extracted", "Extraction failed"}
               /\ sent'[Len(sent')].path = "chunk"
                    => alertMsg' = "No entities could be extracted"
               /\ ~loading'
               /\ currentProject'.entities = currentProject.entities
               /\ currentProject'.bookType = currentProject.bookType
               /\ currentProject' = currentProject
    ]_vars

\* A second run on a board that holds an entity of a novel-mode run was
\* made in collection mode, had all its chunks called and ended with the
\* 'No entities' alert; the entity and the book type are still there.
C9_Witness ==
  /\ pc = "idle"
  /\ runs = 2
  /\ alertMsg = "No entities could be extracted"
  /\ Len(sent) >= 2
  /\ Len(received) = Len(sent)
  /\ sent[1].isCollection
  /\ Len(currentProject.entities) = 1
  /\ currentProject.bookType = "novel"

\* C10: when the API key is missing or the manuscript has nothing to extract
\* (no chapters, or no chapter that is not front matter), pressing Extract
\* makes no service call and leaves the project and the loading state as
\* they are.
C10_NoCallWithoutPreconditions ==
  [][ (/\ pc = "idle"
       /\ showExtractModal
       /\ \/ ~geminiKey
          \/ \A i \in 1..Len(currentProject.chapters) :
               currentProject.chapters[i].isFrontMatter)
        => /\ inflight' = {}
           /\ sent' = sent
           /\ loading' = loading
           /\ currentProject' = currentProject
    ]_vars

\* C11: in novel mode a run adds exactly one entity per pair (kind, name
\* lower-cased and trimmed) among the accepted drafts; the entity has the
\* name of the first draft with that pair, in chunk-then-draft order, and
\* its section references are the sections of the union of the section
\* numbers of all drafts with that pair, without repeats and in ascending
\* order of section number.
C11_OnePerKeyFirstKeptSortedUnion ==
  [][ (pc # "idle" /\ pc' = "idle" /\ ~isCollection /\ alertMsg' = "none") =>
        LET ext == SelectSeq(currentProject.chapters, LAMBDA ch : ~ch.isFrontMatter)
            RECURSIVE draftsFrom(_)
            draftsFrom(i) ==
              IF i > Len(received') THEN << >>
              ELSE (IF /\ received'[i].ok
                       /\ received'[i].content \in {"json", "cut"}
                       /\ sent'[i].path = "chunk"
                            \/ received'[i].finishReason # "MAX_TOKENS"
                      THEN received'[i].entities ELSE << >>)
                   \o draftsFrom(i + 1)
            drafts == draftsFrom(1)
            key(d) == <<d.type, trim(toLowerCase(d.name))>>
            keys == {key(drafts[i]) : i \in 1..Len(drafts)}
            occ(k) == {i \in 1..Len(drafts) : key(drafts[i]) = k}
            first(k) == CHOOSE i \in occ(k) : \A j \in occ(k) : i <= j
            union(k) == UNION {SeqToSet(NumsOf(drafts[i])) : i \in occ(k)}
            ascending(k) == sortNums({n \in union(k) : n >= 1 /\ n <= Len(ext)})
            added == SubSeq(currentProject'.entities,
                            Len(currentProject.entities) + 1,
                            Len(currentProject'.entities))
        IN /\ Len(added) = Cardinality(keys)
           /\ \A k \in keys :
                \E e \in 1..Len(added) :
                  /\ key(added[e]) = k
                  /\ added[e].name = drafts[first(k)].name
                  /\ added[e].chapterRefs
                       = [i \in 1..Len(ascending(k)) |-> ext[ascending(k)[i]].id]
    ]_vars

\* C11, amended: as above, but the section references are without repeats
\* and ascending only when a later draft with the same pair carries a list
\* of section numbers (the union is then rebuilt and sorted); otherwise they
\* are the sections of the first draft's own list, in the order and with the
\* repeats of that list.
C11_OnePerKeyFirstKeptUnion ==
  [][ (pc # "idle" /\ pc' = "idle" /\ ~isCollection /\ alertMsg' = "none") =>
        LET ext == SelectSeq(currentProject.chapters, LAMBDA ch : ~ch.isFrontMatter)
            RECURSIVE draftsFrom(_)
            draftsFrom(i) ==
              IF i > Len(received') THEN << >>
              ELSE (IF /\ received'[i].ok
                       /\ received'[i].content \in {"json", "cut"}
                       /\ sent'[i].path = "chunk"
                            \/ received'[i].finishReason # "MAX_TOKENS"
                      THEN received'[i].entities ELSE << >>)
                   \o draftsFrom(i + 1)
            drafts == draftsFrom(1)
            key(d) == <<d.type, trim(toLowerCase(d.name))>>
            keys == {key(drafts[i]) : i \in 1..Len(drafts)}
            occ(k) == {i \in 1..Len(drafts) : key(drafts[i]) = k}
            first(k) == CHOOSE i \in occ(k) : \A j \in occ(k) : i <= j
            union(k) == UNION {SeqToSet(NumsOf(drafts[i])) : i \in occ(k)}
            ascending(k) == sortNums({n \in union(k) : n >= 1 /\ n <= Len(ext)})
            asGiven(k) == SelectSeq(NumsOf(drafts[first(k)]),
                                    LAMBDA n : n >= 1 /\ n <= Len(ext))
            merged(k) == \E i \in occ(k) : i # first(k) /\ HasNums(drafts[i])
            nums(k) == IF merged(k) THEN ascending(k) ELSE asGiven(k)
            added == SubSeq(currentProject'.entities,
                            Len(currentProject.entities) + 1,
                            Len(currentProject'.entities))
        IN /\ Len(added) = Cardinality(keys)
           /\ \A k \in keys :
                \E e \in 1..Len(added) :
                  /\ key(added[e]) = k
                  /\ added[e].name = drafts[first(k)].name
                  /\ SeqToSet(added[e].chapterRefs)
                       = {ext[n].id : n \in {m \in union(k) : m >= 1 /\ m <= Len(ext)}}
                  /\ added[e].chapterRefs
                       = [i \in 1..Len(nums(k)) |-> ext[nums(k)[i]].id]
    ]_vars

\* A novel-mode run of two chunks whose drafts have the same pair has added
\* one entity, under the name of the first, with the sections 1, 2 and 4.
C11_Witness ==
  /\ pc = "idle"
  /\ Len(sent) = 2
  /\ Len(received) = 2
  /\ sent[1].path = "chunk"
  /\ ~sent[1].isCollection
  /\ received[1].entities = <<DraftA>>
  /\ received[2].entities = <<DraftA2>>
  /\ Len(currentProject.entities) = 1
  /\ currentProject.entities[1].name = <<"A", "n">>
  /\ currentProject.entities[1].chapterRefs
       = <<ChapterId(1), ChapterId(2), ChapterId(4)>>

\* C12: in collection mode nothing is deduplicated: a run whose accepted
\* answers hold k drafts in total adds exactly k entities, as many of each
\* kind and name as there are drafts of that kind and name, and all with
\* different ids, different also from the ids already on the board.
C12_CollectionKeepsEveryDraft ==
  [][ (pc # "idle" /\ pc' = "idle" /\ isCollection) =>
        LET RECURSIVE draftsFrom(_)
            draftsFrom(i) ==
              IF i > Len(received') THEN << >>
              ELSE (IF /\ received'[i].ok
                       /\ received'[i].content \in {"json", "cut"}
                       /\ sent'[i].path = "chunk"
                            \/ received'[i].finishReason # "MAX_TOKENS"
                      THEN received'[i].entities ELSE << >>)
                   \o draftsFrom(i + 1)
            drafts == draftsFrom(1)
            all == currentProject'.entities
            added == SubSeq(all, Len(currentProject.entities) + 1, Len(all))
        IN /\ Len(added) = Len(drafts)
           /\ \A d \in 1..Len(drafts) :
                Cardinality({e \in 1..Len(added) :
                               /\ added[e].type = drafts[d].type
                               /\ added[e].name = drafts[d].name})
                  = Cardinality({c \in 1..Len(drafts) :
                                   /\ drafts[c].type = drafts[d].type
                                   /\ drafts[c].name = drafts[d].name})
           /\ \A i, j \in 1..Len(all) :
                (i < j /\ j > Len(currentProject.entities)) => all[i].id # all[j].id
    ]_vars

\* A collection-mode run of two chunks that both returned the same draft has
\* added two entities of that kind and name, with different ids.
C12_Witness ==
  /\ pc = "idle"
  /\ Len(sent) = 2
  /\ Len(received) = 2
  /\ sent[1].path = "chunk"
  /\ sent[1].isCollection
  /\ received[1].entities = <<DraftA>>
  /\ received[2].entities = <<DraftA>>
  /\ Len(currentProject.entities) = 2
  /\ currentProject.entities[1].name = currentProject.entities[2].name
  /\ currentProject.entities[1].type = currentProject.entities[2].type
  /\ currentProject.entities[1].id # currentProject.entities[2].id

\* C13: every entity a run adds carries one kind of section reference,
\* according to the mode of the run: in novel mode section ids (chapterRefs)
\* and no section titles (storyRefs), in collection mode section titles and
\* no section ids; never both are populated.
C13_OneKindOfReference ==
  [][ (pc # "idle" /\ pc' = "idle") =>
        LET all == currentProject'.entities
            added == SubSeq(all, Len(currentProject.entities) + 1, Len(all))
            ids(e) == IF "chapterRefs" \in DOMAIN e THEN e.chapterRefs ELSE << >>
            titles(e) == IF "storyRefs" \in DOMAIN e THEN e.storyRefs ELSE << >>
        IN \A e \in 1..Len(added) :
             /\ ~(ids(added[e]) # << >> /\ titles(added[e]) # << >>)
             /\ isCollection => ids(added[e]) = << >>
             /\ ~isCollection => titles(added[e]) = << >>
    ]_vars

\* C14: the entities a run adds are ordered by kind, scene < character <
\* location < theme < idea, and within a kind by the lowest section number
\* of the entity that resolves to a section of the manuscript; an entity
\* without a resolvable section number comes behind those of its kind that
\* have one.
C14_OrderedByKindThenSection ==
  [][ (pc # "idle" /\ pc' = "idle") =>
        LET ext == SelectSeq(currentProject.chapters, LAMBDA ch : ~ch.isFrontMatter)
            all == currentProject'.entities
            added == SubSeq(all, Len(currentProject.entities) + 1, Len(all))
            priority(t) == CASE t = "scene" -> 0
                             [] t = "character" -> 1
                             [] t = "location" -> 2
                             [] t = "theme" -> 3
                             [] OTHER -> 4
            number(id) == CHOOSE n \in 1..Len(ext) : ext[n].id = id
            numbers(e) == {number(e.chapterRefs[r]) : r \in 1..Len(e.chapterRefs)}
            lowest(e) == IF numbers(e) = {} THEN Len(ext) + 1
                         ELSE CHOOSE n \in numbers(e) : \A m \in numbers(e) : n <= m
        IN \A i, j \in 1..Len(added) :
             i < j =>
               \/ priority(added[i].type) < priority(added[j].type)
               \/ /\ priority(added[i].type) = priority(added[j].type)
                  /\ lowest(added[i]) <= lowest(added[j])
    ]_vars

\* C15: the i-th entity a run adds (0-based, in the order of the batch) is
\* placed at (40 + (i mod 5) * 240, 40 + floor(i / 5) * 180), so no two
\* entities of one batch have the same cell; a batch of 3 gets (40,40),
\* (280,40), (520,40).
C15_BatchGrid ==
  [][ (pc # "idle" /\ pc' = "idle") =>
        LET all == currentProject'.entities
            added == SubSeq(all, Len(currentProject.entities) + 1, Len(all))
        IN /\ \A i \in 0..(Len(added) - 1) :
                /\ added[i + 1].position.x = 40 + (i % 5) * 240
                /\ added[i + 1].position.y = 40 + (i \div 5) * 180
           /\ \A i, j \in 1..Len(added) :
                i # j => added[i].position # added[j].position
           /\ Len(added) = 3 =>
                [i \in 1..3 |-> <<added[i].position.x, added[i].position.y>>]
                  = << <<40, 40>>, <<280, 40>>, <<520, 40>> >>
    ]_vars

\* A run has added a batch of six entities to an empty board; the sixth is
\* the first of the second row.
C15_Witness ==
  /\ pc = "idle"
  /\ runs = 1
  /\ Len(currentProject.entities) = 6
  /\ currentProject.entities[6].position = [x |-> 40, y |-> 220]

\* C16: an entity added by hand (saveEntity of a form without id and
\* without position) is placed at the first candidate position that overlaps
\* no entity of the board, the candidates being scanned from the start
\* point (80,60) in steps of a cell (240 wide, 200 high), left to right up
\* to x = 1600 and then top to bottom; it overlaps an entity of the board
\* only when 100 candidates have been passed over.
C16_ManualAddAtFirstFreeCell ==
  [][ (/\ pc = "idle" /\ pc' = "idle"
       /\ Len(currentProject'.entities) = Len(currentProject.entities) + 1) =>
        LET board == currentProject.entities
            new == currentProject'.entities[Len(currentProject'.entities)]
            dist(a, b) == IF a >= b THEN a - b ELSE b - a
            overlapping(x, y) ==
              \E i \in 1..Len(board) :
                /\ dist(x, board[i].position.x) < 240
                /\ dist(y, board[i].position.y) < 200
            candidate(k) == [x |-> 80 + (k % 7) * 240, y |-> 60 + (k \div 7) * 200]
            first == CHOOSE k \in 0..100 :
                       /\ k = 100 \/ ~overlapping(candidate(k).x, candidate(k).y)
                       /\ \A j \in 0..(k - 1) :
                            overlapping(candidate(j).x, candidate(j).y)
        IN /\ new.position = candidate(first)
           /\ first < 100 => ~overlapping(new.position.x, new.position.y)
    ]_vars

\* C17: for a markdown file with a title (its first first-level header
\* line), text that is not blank between the title and the first
\* second-level header line gives a section at position 0 with isFrontMatter
\* set, index 0 and that text, trimmed, as its body; the real sections
\* follow in the order of their header lines with the indices 1, 2, ..., n,
\* and have the indices 1..n too when there is no front matter.
C17_FrontMatterAndDenseIndices ==
  importedData.type = "markdown" =>
    LET lines == split(importContent)
        isH1(l) == Len(l) >= 3 /\ l[1] = "#" /\ l[2] = " "
        isH2(l) == Len(l) >= 4 /\ l[1] = "#" /\ l[2] = "#" /\ l[3] = " "
        h1s == {i \in 1..Len(lines) : isH1(lines[i])}
        h2s == {i \in 1..Len(lines) : isH2(lines[i])}
        title == CHOOSE i \in h1s : \A j \in h1s : i <= j
        firstH2 == CHOOSE i \in h2s : \A j \in h2s : i <= j
        between == trim(join(SubSeq(lines, title + 1, firstH2 - 1)))
        hasFront == h1s # {} /\ h2s # {} /\ title < firstH2 /\ between # << >>
        chapters == importedData.chapters
        real == SelectSeq(chapters, LAMBDA ch : ~ch.isFrontMatter)
        headers == SelectSeq(lines, isH2)
    IN /\ hasFront =>
            /\ Len(chapters) = Len(real) + 1
            /\ chapters[1].isFrontMatter
            /\ chapters[1].order = 0
            /\ chapters[1].content = between
            /\ SubSeq(chapters, 2, Len(chapters)) = real
       /\ (h2s # {} /\ ~hasFront) => chapters = real
       /\ h2s # {} =>
            /\ Len(real) = Len(headers)
            /\ \A k \in 1..Len(real) :
                 /\ real[k].order = k
                 /\ <<"#", "#", " ">> \o real[k].title = headers[k]

\* The file '# T', 'x', '## A', '## B' was imported: front matter 'x' and
\* two sections.
C17_Witness ==
  /\ importedData.type = "markdown"
  /\ importContent = <<"#", " ", "T", "\n", "x", "\n", "#", "#", " ", "A", "\n",
                       "#", "#", " ", "B">>
  /\ Len(importedData.chapters) = 3
  /\ importedData.chapters[1].isFrontMatter
  /\ importedData.chapters[1].content = <<"x">>
  /\ importedData.chapters[3].order = 2

\* C18: a file that holds only a title line (one first-level header line,
\* the first line, with or without text behind it) and no other header line
\* is segmented into an empty section list.
C18_TitleOnlyGivesNoSections ==
  importedData.type = "markdown" =>
    LET lines == split(importContent)
        isH1(l) == Len(l) >= 3 /\ l[1] = "#" /\ l[2] = " "
        isH2(l) == Len(l) >= 4 /\ l[1] = "#" /\ l[2] = "#" /\ l[3] = " "
    IN (/\ isH1(lines[1])
        /\ \A i \in 2..Len(lines) : ~isH1(lines[i]) /\ ~isH2(lines[i]))
         => importedData.chapters = << >>

\* C18, amended: such a file is segmented, by the fallback scan, into
\* exactly one section: its title is the text of the title line, its body
\* the trimmed text behind the title line, its index 1; the title of the
\* manuscript is reported as absent.
C18_TitleOnlyGivesOneSection ==
  importedData.type = "markdown" =>
    LET lines == split(importContent)
        isH1(l) == Len(l) >= 3 /\ l[1] = "#" /\ l[2] = " "
        isH2(l) == Len(l) >= 4 /\ l[1] = "#" /\ l[2] = "#" /\ l[3] = " "
    IN (/\ isH1(lines[1])
        /\ \A i \in 2..Len(lines) : ~isH1(lines[i]) /\ ~isH2(lines[i]))
         => /\ Len(importedData.chapters) = 1
            /\ <<"#", " ">> \o importedData.chapters[1].title = lines[1]
            /\ importedData.chapters[1].content
                 = trim(join(SubSeq(lines, 2, Len(lines))))
            /\ importedData.chapters[1].order = 1
            /\ ~importedData.chapters[1].isFrontMatter
            /\ importedData.bookTitle = << >>

\* The file '# T', 'x' was imported.
C18_Witness ==
  /\ importedData.type = "markdown"
  /\ importContent = <<"#", " ", "T", "\n", "x">>
  /\ Len(importedData.chapters) = 1
  /\ importedData.chapters[1].content = <<"x">>

\* C19: in the primary scan (the file has a second-level header line) the
\* body of a section is the lines behind its header line up to, and not
\* including, the next header line of either level, or the end of the file,
\* trimmed: a first-level header line behind a section header ends the body
\* of that section.
C19_BodyEndsAtAnyHeader ==
  importedData.type = "markdown" =>
    LET lines == split(importContent)
        isH1(l) == Len(l) >= 3 /\ l[1] = "#" /\ l[2] = " "
        isH2(l) == Len(l) >= 4 /\ l[1] = "#" /\ l[2] = "#" /\ l[3] = " "
        h2s == {i \in 1..Len(lines) : isH2(lines[i])}
        real == SelectSeq(importedData.chapters, LAMBDA ch : ~ch.isFrontMatter)
        header(k) == CHOOSE i \in h2s : Cardinality({j \in h2s : j <= i}) = k
        stops(k) == {i \in (header(k) + 1)..Len(lines) :
                       isH1(lines[i]) \/ isH2(lines[i])} \cup {Len(lines) + 1}
        stop(k) == CHOOSE i \in stops(k) : \A j \in stops(k) : i <= j
    IN h2s # {} =>
         \A k \in 1..Len(real) :
           real[k].content = trim(join(SubSeq(lines, header(k) + 1, stop(k) - 1)))

\* C19, amended: in the primary scan the body of a section is the lines
\* behind its header line up to, and not including, the next second-level
\* header line, or the end of the file, trimmed, without the first
\* first-level header line of the file (the title line) should it lie among
\* them: any other first-level header line is a line of the body, and the
\* lines behind a first-level header line go on into the same body.
C19_BodyEndsAtSectionHeader ==
  importedData.type = "markdown" =>
    LET lines == split(importContent)
        isH1(l) == Len(l) >= 3 /\ l[1] = "#" /\ l[2] = " "
        isH2(l) == Len(l) >= 4 /\ l[1] = "#" /\ l[2] = "#" /\ l[3] = " "
        h1s == {i \in 1..Len(lines) : isH1(lines[i])}
        h2s == {i \in 1..Len(lines) : isH2(lines[i])}
        titleLine(i) == i \in h1s /\ \A j \in h1s : i <= j
        real == SelectSeq(importedData.chapters, LAMBDA ch : ~ch.isFrontMatter)
        header(k) == CHOOSE i \in h2s : Cardinality({j \in h2s : j <= i}) = k
        stops(k) == {i \in (header(k) + 1)..Len(lines) : isH2(lines[i])}
                      \cup {Len(lines) + 1}
        stop(k) == CHOOSE i \in stops(k) : \A j \in stops(k) : i <= j
        RECURSIVE body(_, _)
        body(i, last) ==
          IF i > last THEN << >>
          ELSE (IF titleLine(i) THEN << >> ELSE <<lines[i]>>) \o body(i + 1, last)
    IN h2s # {} =>
         \A k \in 1..Len(real) :
           real[k].content = trim(join(body(header(k) + 1, stop(k) - 1)))

\* The file '# T', '## A', 'x', '# U', 'x' was imported: the body of its
\* section holds the second first-level header line and the line behind it.
C19_Witness ==
  /\ importedData.type = "markdown"
  /\ importContent = <<"#", " ", "T", "\n", "#", "#", " ", "A", "\n", "x", "\n",
                       "#", " ", "U", "\n", "x">>
  /\ Len(importedData.chapters) = 1
  /\ importedData.chapters[1].content = <<"x", "\n", "#", " ", "U", "\n", "x">>


\* C20: an answer that is the text of a list of records cut after some of
\* its characters is salvaged at the last '},' of the text.  When that
\* boundary is the end of the j-th record of the list (the cut lies in the
\* record after it, or behind it), the call returns the first j records, in
\* order, and a collection-mode run of that one call adds exactly them.  When
\* the text holds no '},', or the last one lies inside the record that was
\* cut (the text closed there does not parse), the call fails with an error
\* and the run adds nothing.
C20_SalvageAtLastBoundary ==
  [][ (pc = "awaitChunk" /\ pc' = "idle" /\ isCollection
       /\ received'[Len(received')].finishReason = "MAX_TOKENS") =>
        LET resp == received'[Len(received')]
            text == resp.text
            boundaries == {k \in 1..(Len(text) - 1) :
                             text[k] = "}" /\ text[k + 1] = ","}
            last == CHOOSE k \in boundaries : \A b \in boundaries : b <= k
            recordEnd(j) == Len(ListOpen) + Len(recordsText(SubSeq(resp.list, 1, j)))
            complete == {j \in 1..Len(resp.list) : recordEnd(j) = last}
            kept == CHOOSE j \in complete : TRUE
            all == currentProject'.entities
            added == SubSeq(all, Len(currentProject.entities) + 1, Len(all))
        IN IF boundaries # {} /\ complete # {}
             THEN /\ ~extractChunkThrows(resp)
                  /\ alertMsg' = "none"
                  /\ Len(added) = kept
                  /\ \A i \in 1..kept :
                       /\ added[i].type = resp.list[i].draft.type
                       /\ added[i].name = resp.list[i].draft.name
                       /\ extractChunkResult(resp).entities[i] = resp.list[i].draft
             ELSE /\ extractChunkThrows(resp)
                  /\ added = << >>
                  /\ alertMsg' = "No entities could be extracted"
    ]_vars

\* A collection-mode run was answered with a list of three records cut in
\* the middle of the third, after the '},' of the second and before any '},'
\* of the third, and added the first two records, in order; the second one
\* is the record with the nested object.
C20_Witness ==
  /\ pc = "idle"
  /\ Len(received) = 1
  /\ sent[1].isCollection
  /\ received[1].finishReason = "MAX_TOKENS"
  /\ received[1].content = "cut"
  /\ Len(received[1].list) = 3
  /\ received[1].list[1].draft.name = <<"B">>
  /\ received[1].list[2].draft.name = <<"A", "n">>
  /\ received[1].cut = Len(ListOpen) + Len(recordsText(SubSeq(received[1].list, 1, 2))) + 9
  /\ Len(currentProject.entities) = 2
  /\ currentProject.entities[1].name = <<"B">>
  /\ currentProject.entities[2].name = <<"A", "n">>


\* C21: in every project state reached by a markdown import, chapter
\* reorders and JSON imports of exported projects, a chapter has the sequence
\* index 0 exactly when it is the front-matter section, and no two chapters
\* of the project have the same sequence index.
C21_ZeroIsFrontMatterIndicesDistinct ==
  LET chapters == currentProject.chapters
  IN /\ \A i \in 1..Len(chapters) :
          (chapters[i].order = 0) <=> chapters[i].isFrontMatter
     /\ \A i, j \in 1..Len(chapters) :
          i # j => chapters[i].order # chapters[j].order


\* C23: round trip.  When an exported file is imported as a new project,
\* the new project has the chapters of the file (ids, titles, content, order
\* and front-matter flag), its entities (ids, fields, positions and folders),
\* its customFolders and its bookType.
C23_JsonRoundTrip ==
  [][ (/\ pendingImport # Null
       /\ pendingImport' = Null
       /\ currentProject'.id # currentProject.id
       /\ \A p \in library : currentProject'.id # p.id) =>
        LET data == pendingImport[1].data
        IN /\ currentProject'.chapters = data.chapters
           /\ currentProject'.entities = data.entities
           /\ currentProject'.customFolders = data.customFolders
           /\ currentProject'.bookType =
                (IF "bookType" \in DOMAIN data THEN data.bookType ELSE "undefined")
    ]_vars


\* C22: every change typed into the chapter editor is written to the
\* project, and with it to local storage.  Once no debounce timer is pending
\* nothing is left that could write, so then the text typed last into each
\* field of each chapter is the text of that field in the project.
C22_TypedTextIsSaved ==
  (timers.content = Null /\ timers.title = Null) =>
    \A t \in typed :
      LET chapter == chapterOf(t.chapterId)
      IN (IF t.field = "content" THEN chapter.content ELSE chapter.title) = t.value

\* C26: when two selected cards are merged, whatever was done to the cards
\* between the selection and the merge, the project then holds exactly one
\* entity with the id of the kept card, at the position and with the star
\* the kept card has at the merge, with both descriptions and the union
\* without repeats of both cards' references; the other selected card is
\* gone and every other entity is as it was.
C26_MergeKeepsCurrentCard ==
  [][(Len(selectedForMerge) = 2 /\ selectedForMerge' = << >>) =>
       LET keepId == selectedForMerge[1].id
           otherId == selectedForMerge[2].id
           now == currentProject.entities
           after == currentProject'.entities
           starredOf(e) == "starred" \in DOMAIN e /\ e.starred
       IN /\ Cardinality({i \in 1..Len(after) : after[i].id = keepId}) = 1
          /\ \A i \in 1..Len(after), j \in 1..Len(now) :
               (after[i].id = keepId /\ now[j].id = keepId) =>
                 /\ after[i].position = now[j].position
                 /\ starredOf(after[i]) = starredOf(now[j])
                 /\ \A k \in 1..Len(now) :
                      now[k].id = otherId =>
                        /\ after[i].description = joinedDescriptions(now[j], now[k])
                        /\ after[i].chapterRefs =
                             withoutRepeats(listOf(now[j], "chapterRefs")
                                            \o listOf(now[k], "chapterRefs"))
          /\ \A i \in 1..Len(after) : after[i].id # otherId
          /\ SelectSeq(after, LAMBDA e : e.id # keepId)
               = SelectSeq(now, LAMBDA e : e.id \notin {keepId, otherId})
    ]_vars

\* C27: every entity of the project has one of the five types.
C27_EveryEntityHasAType ==
  \A i \in 1..Len(currentProject.entities) :
    typeOf(currentProject.entities[i]) \in
      {"character", "theme", "location", "scene", "idea"}

C25_CallsBoundedRunEnds ==
  /\ [](LET N == Len(extractableChaptersOf(currentProject.chapters))
        IN /\ Len(sent) <= 1 + ((N + 2) \div 3)
           /\ \A i \in 1..Len(sent) : sent[i].path = "single" => i = 1
           /\ \A i, j \in 1..Len(sent) :
                (i < j /\ sent[j].path = "chunk") => sent[i] # sent[j])
  /\ (pc # "idle" ~> pc = "idle")

\* A run that went from the single request to the chunks of more than three
\* sections has ended.
C25_Witness ==
  /\ pc = "idle"
  /\ runs = 1
  /\ Len(sent) >= 3
  /\ sent[1].path = "single"
  /\ sent[Len(sent)].path = "chunk"

\* C30: a run that has set the loading state clears it in the end, and no
\* run that has ended leaves it set.
C30_LoadingIsCleared ==
  /\ [](pc = "idle" => ~loading)
  /\ (loading ~> ~loading)

\* A run has ended in the outer catch on a draft without a name.
C30_Witness ==
  /\ pc = "idle"
  /\ ~loading
  /\ runs = 1
  /\ alertMsg = "Extraction failed"
  /\ Len(received) > 0
  /\ received[Len(received)].ok
  /\ Len(received[Len(received)].entities) > 0

\* C28: the step that ends a run finds a project open, and changes the
\* open project only if its chapters are the chapters the run extracted.
C28_EntitiesGoToExtractedProject ==
  [][(pc # "idle" /\ pc' = "idle") =>
       /\ currentProject # NoProject
       /\ currentProject' # RenderError
       /\ currentProject' # currentProject =>
            extractableChaptersOf(currentProject.chapters) = extractableChapters
    ]_vars

\* C29 as stated: a step takes a card from the project only if it is the
\* step that ends a run with success.
C29_CardsGoWhenRunSucceeds ==
  [][(entityIds(currentProject) \ entityIds(currentProject') # {}) =>
       (pc # "idle" /\ pc' = "idle" /\ alertMsg' = "none"
        /\ Len(currentProject'.entities) > 0)
    ]_vars

\* C29, amended: the choice of 'Clear All & Re-extract' itself removes every
\* card, and no card that was on the board comes back, whether the run that
\* follows succeeds, fails or finds nothing, or the dialog is closed
\* without a run.
C29_CardsGoWhenChosen ==
  [][/\ (showExtractConfirmModal /\ showExtractModal') =>
          currentProject'.entities = << >>
     /\ \A id \in entityIds(currentProject') \ entityIds(currentProject) :
          id >= nextId
    ]_vars

\* After the choice the run has failed, and the board is empty.
C29_Witness ==
  /\ pc = "idle"
  /\ runs > 1
  /\ alertMsg = "Extraction failed"
  /\ currentProject.entities = << >>

=============================================================================
